---- MODULE Spec2Model ----
(***************************************************************************)
(* ex-bootstrap: the "firmware status" query (cmd/firmware_status.go), the *)
(* "firmware" update command (cmd/firmware.go) and the Redfish client      *)
(* functions they call, with the discovery of the bootable MACs            *)
(* (internal/redfish/client.go).                                           *)
(*                                                                         *)
(* Go strings are modelled as sequences of one-character strings, so that  *)
(* strings.ToLower, strings.Contains, strings.EqualFold and fmt.Sprintf    *)
(* are computed character by character.                                    *)
(***************************************************************************)
EXTENDS Integers, Sequences, FiniteSets, TLC

(***************************************************************************)
(* Bounds of the model.                                                    *)
(***************************************************************************)
\* longest host list (--hosts / bmcs[])
MaxHosts == 2
\* longest target list (--targets)
MaxTargets == 2
\* largest --batch-size
MaxBatch == 2
\* most (host, target) pairs of one run
MaxRecords == 4
\* most conditions in one Status.Conditions array
MaxConds == 2
\* most members of the TaskService task collection
MaxTasks == 1
\* most members of the BMC's Systems collection
MaxSystems == 2
\* most members of one system's EthernetInterfaces collection
MaxNics == 2

(***************************************************************************)
(* Strings.                                                                *)
(***************************************************************************)
UpperChars == <<"A","B","C","D","E","F","G","H","I","J","K","L","M",
                "N","O","P","Q","R","S","T","U","V","W","X","Y","Z">>

LowerChars == <<"a","b","c","d","e","f","g","h","i","j","k","l","m",
                "n","o","p","q","r","s","t","u","v","w","x","y","z">>

\* unicode.ToLower on one ASCII character
ToLowerChar(c) ==
    IF \E i \in 1..Len(UpperChars) : UpperChars[i] = c
    THEN LowerChars[CHOOSE i \in 1..Len(UpperChars) : UpperChars[i] = c]
    ELSE c

\* strings.ToLower
ToLower(s) == [i \in 1..Len(s) |-> ToLowerChar(s[i])]

\* strings.Contains
Contains(s, sub) ==
    \E i \in 0..(Len(s) - Len(sub)) : SubSeq(s, i + 1, i + Len(sub)) = sub

\* strings.EqualFold (ASCII)
EqualFold(a, b) == ToLower(a) = ToLower(b)

\* the literals of the source
Empty       == << >>
SepSemi     == <<";"," ">>
StrOk       == <<"o","k">>
StrOK       == <<"O","K">>
StrUpdating == <<"u","p","d","a","t","i","n","g">>
StrEnabled  == <<"e","n","a","b","l","e","d">>
StrCritical == <<"C","r","i","t","i","c","a","l">>
StrWarning  == <<"W","a","r","n","i","n","g">>
StrFailed   == <<"f","a","i","l","e","d">>
StrError    == <<"e","r","r","o","r">>
StrUnknown  == <<"(","u","n","k","n","o","w","n",")">>
StrHealth   == <<"h","e","a","l","t","h",":"," ">>
StrUpdate   == <<"u","p","d","a","t","e">>
StrFirmware == <<"f","i","r","m","w","a","r","e">>
StrRunning  == <<"r","u","n","n","i","n","g">>
StrStarting == <<"s","t","a","r","t","i","n","g">>
StrInprogress == <<"i","n","p","r","o","g","r","e","s","s">>
StrQueued   == <<"q","u","e","u","e","d">>

\* the progress keywords of firmware_status.go:221
ProgressWords ==
    { <<"i","n"," ","p","r","o","g","r","e","s","s">>,
      <<"i","n","s","t","a","l","l">>,
      <<"i","n","s","t","a","l","l","i","n","g">>,
      StrRunning,
      <<"d","o","w","n","l","o","a","d","i","n","g">>,
      <<"d","o","w","n","l","o","a","d"," ","i","n"," ","p","r","o","g","r","e","s","s">> }

(***************************************************************************)
(* The status inference of one host unit (firmware_status.go:127-247).     *)
(***************************************************************************)
\* fmt.Sprintf("%s (%s)", c.MessageID, c.Message) or c.Message
CondText(c) ==
    IF c.MessageID # Empty
    THEN c.MessageID \o <<" ","(">> \o c.Message \o <<")">>
    ELSE c.Message

\* if perr == "" { perr = text } else { perr = perr + "; " + text }
AppendErr(perr, text) ==
    IF perr = Empty THEN text ELSE perr \o SepSemi \o text

\* for _, c := range conds { append CondText(c) }
RECURSIVE CollectConditions(_, _)
CollectConditions(perr, conds) ==
    IF conds = << >> THEN perr
    ELSE CollectConditions(AppendErr(perr, CondText(Head(conds))), Tail(conds))

\* GetUpdateServiceStatus: the decoded document, or the error of the GET
GetUpdateServiceStatus(reply) ==
    IF ~reply.ok
    THEN [ok |-> FALSE, err |-> reply.err,
          Health |-> Empty, State |-> Empty, Conditions |-> << >>]
    ELSE [ok |-> TRUE, err |-> Empty,
          Health |-> reply.Health, State |-> reply.State,
          Conditions |-> [i \in 1..Len(reply.Conditions) |->
              [Message   |-> reply.Conditions[i].Message,
               Severity  |-> reply.Conditions[i].Severity,
               MessageID |-> reply.Conditions[i].MessageID]]]

\* a slip: the state is looked at whatever the health
EvalUpdateServiceStateAlways(us) ==
    IF ~us.ok THEN [perr |-> Empty, anyInProgress |-> FALSE]
    ELSE [perr |-> IF ToLower(us.Health) # StrOk
                   THEN CollectConditions(Empty, us.Conditions) ELSE Empty,
          anyInProgress |-> (ToLower(us.State) = StrUpdating)]

\* lines 128-154: perr and anyInProgress after the update-service snapshot
UpdateServiceHealthNotOk(us) == ToLower(us.Health) # StrOk

EvalUpdateService(us) ==
    IF ~us.ok THEN [perr |-> Empty, anyInProgress |-> FALSE]
    ELSE IF UpdateServiceHealthNotOk(us)
         THEN [perr |-> CollectConditions(Empty, us.Conditions),
               anyInProgress |-> FALSE]
         ELSE [perr |-> Empty,
               anyInProgress |-> (ToLower(us.State) = StrUpdating)]

\* client.go:154-167: is the fetched task an active update task
IsActiveUpdateTask(t) ==
    LET ts   == ToLower(t.TaskState)
        name == ToLower(t.Name)
        msg  == ToLower(t.Message)
    IN  /\ ts \in {StrRunning, StrStarting, StrInprogress, StrQueued}
        /\ \/ Contains(name, StrUpdate) \/ Contains(name, StrFirmware)
           \/ Contains(msg, StrUpdate)  \/ Contains(msg, StrFirmware)
           \/ (name = Empty /\ msg = Empty)

\* GetActiveUpdateTasks: the ids of the active update tasks, or the error of
\* the collection GET; a member whose GET fails is skipped
RECURSIVE ActiveTaskIds(_)
ActiveTaskIds(members) ==
    IF members = << >> THEN << >>
    ELSE LET m == Head(members)
         IN  IF m.ok /\ IsActiveUpdateTask(m)
             THEN <<m.ID>> \o ActiveTaskIds(Tail(members))
             ELSE ActiveTaskIds(Tail(members))

GetActiveUpdateTasks(reply) ==
    IF ~reply.ok THEN [ok |-> FALSE, err |-> reply.err, tasks |-> << >>]
    ELSE [ok |-> TRUE, err |-> Empty, tasks |-> ActiveTaskIds(reply.Members)]

\* a slip: a fetched task list counts as progress even when it is empty
EvalTasksAnyList(tasks) == tasks.ok

\* lines 157-163: anyInProgress after the task list
EvalTasks(tasks) == tasks.ok /\ Len(tasks.tasks) > 0

\* GetFirmwareInventory: the decoded document, or the error of the GET
GetFirmwareInventory(reply) ==
    IF ~reply.ok
    THEN [ok |-> FALSE, err |-> reply.err, Version |-> Empty,
          Health |-> Empty, State |-> Empty, Conditions |-> << >>]
    ELSE [ok |-> TRUE, err |-> Empty, Version |-> reply.Version,
          Health |-> reply.Health, State |-> reply.State,
          Conditions |-> [i \in 1..Len(reply.Conditions) |->
              [Message   |-> reply.Conditions[i].Message,
               Severity  |-> reply.Conditions[i].Severity,
               MessageID |-> reply.Conditions[i].MessageID]]]

\* a slip: the health rule names the health and leaves the conditions to
\* the loop over the conditions
HealthErrHealthOnly(inv) ==
    IF ToLower(inv.Health) # Empty /\ ~EqualFold(inv.Health, StrOK)
    THEN StrHealth \o inv.Health
    ELSE Empty

\* line 177: the inventory reports a non-OK health
InventoryHealthNotOk(inv) ==
    ToLower(inv.Health) # Empty /\ ~EqualFold(inv.Health, StrOK)

\* lines 176-197: the error text after the health rule
HealthErr(inv) ==
    IF InventoryHealthNotOk(inv)
    THEN IF Len(inv.Conditions) > 0
         THEN CollectConditions(Empty, inv.Conditions)
         ELSE StrHealth \o inv.Health
    ELSE Empty

\* a slip: only the severity makes an error condition
IsErrorConditionSeverityOnly(c) == c.Severity = StrCritical

\* line 205: the condition is an error condition
IsErrorCondition(c) ==
    LET m == ToLower(c.Message)
    IN  c.Severity = StrCritical \/ Contains(m, StrFailed) \/ Contains(m, StrError)

\* line 221: the message names an activity in progress
IsProgressMessage(c) ==
    \E w \in ProgressWords : Contains(ToLower(c.Message), w)

\* line 200: the state is neither empty nor "enabled" nor "ok"
StateInProgress(inv) ==
    LET st == ToLower(inv.State)
    IN  st # Empty /\ st # StrEnabled /\ st # StrOk

\* lines 203-224: the loop over the conditions; acc = [perr, prog]
RECURSIVE ScanConditions(_, _)
ScanConditions(acc, conds) ==
    IF conds = << >> THEN acc
    ELSE LET c == Head(conds)
         IN  IF IsErrorCondition(c)
             THEN ScanConditions([perr |-> AppendErr(acc.perr, CondText(c)),
                                  prog |-> acc.prog], Tail(conds))
             ELSE ScanConditions([perr |-> acc.perr,
                                  prog |-> acc.prog \/ IsProgressMessage(c)],
                                 Tail(conds))

\* lines 167-225: perrTarget, verTarget, anyInProgressTarget of one target
EvalInventory(inv) ==
    IF ~inv.ok
    THEN [perrTarget |-> inv.err, verTarget |-> Empty,
          anyInProgressTarget |-> FALSE]
    ELSE LET acc == ScanConditions([perr |-> HealthErr(inv),
                                    prog |-> StateInProgress(inv)],
                                   inv.Conditions)
         IN  [perrTarget |-> acc.perr, verTarget |-> inv.Version,
              anyInProgressTarget |-> acc.prog]

\* a slip: no placeholder for an empty version
ObservedVersionRaw(ver) == ver

\* lines 228-230
ObservedVersion(ver) == IF ver = Empty THEN StrUnknown ELSE ver

\* lines 235-242
CombinedErr(perr, perrTarget) ==
    IF perrTarget # Empty
    THEN IF perr = Empty THEN perrTarget ELSE perr \o SepSemi \o perrTarget
    ELSE perr

\* a slip: the in-progress flags are looked at before the error text
StatusOfProgressFirst(combinedErr, anyInProgress, anyInProgressTarget) ==
    IF anyInProgress \/ anyInProgressTarget THEN "in-progress"
    ELSE IF combinedErr # Empty THEN "error"
    ELSE "idle"

\* lines 233, 243-247
StatusOf(combinedErr, anyInProgress, anyInProgressTarget) ==
    IF combinedErr # Empty THEN "error"
    ELSE IF anyInProgress \/ anyInProgressTarget THEN "in-progress"
    ELSE "idle"

\* lines 167-247: the locals of one iteration of the loop over the targets
TargetLocals(perr, anyInProgress, inv) ==
    LET ev  == EvalInventory(inv)
        err == CombinedErr(perr, ev.perrTarget)
    IN  [perrTarget |-> ev.perrTarget,
         anyInProgressTarget |-> ev.anyInProgressTarget,
         verTarget |-> ObservedVersion(ev.verTarget),
         combinedErr |-> err,
         status |-> StatusOf(err, anyInProgress, ev.anyInProgressTarget)]

\* lines 259-266: the hostSummary of one (host, target)
Summary(h, target, loc) ==
    [Host |-> h, Target |-> target, ObservedVersion |-> loc.verTarget,
     Status |-> loc.status, Error |-> loc.combinedErr]


(***************************************************************************)
(* The Gateway: what a GET may answer.  A reply is the decoded JSON        *)
(* document, or the error of the GET (ok = FALSE, err = its text, never    *)
(* empty).  "terse" is a small repertoire for the scheduling of several    *)
(* hosts, "full" a rich one for the inference of one (host, target).       *)
(***************************************************************************)
HostNames   == { <<"a">>, <<"b">> }
TargetNames == { <<"/","B">>, <<"/","N">> }

ErrEOF == <<"E","O","F">>
VerV1  == <<"v","1">>

\* sequences over S of length lo..hi
SeqsOf(S, lo, hi) == UNION { [1..n -> S] : n \in lo..hi }

Cond(msg, id, sev) == [Message |-> msg, MessageID |-> id, Severity |-> sev]

IdE1 == <<"E","1">>

UsConds ==
    { Cond(<<"b","a","d">>, IdE1, StrCritical),
      Cond(<<"b","a","d">>, Empty, StrWarning),
      Cond(Empty, Empty, StrWarning) }

InvConds ==
    { Cond(<<"U","p","d","a","t","e"," ","F","a","i","l","e","d">>, IdE1, StrWarning),
      Cond(<<"I","n","s","t","a","l","l","i","n","g">>, Empty, <<"c","r","i","t","i","c","a","l">>),
      Cond(<<"i","n","s","t","a","l","l"," ","E","R","R","O","R">>, Empty, StrWarning),
      Cond(Empty, Empty, StrCritical) }

FailedReply == [ok |-> FALSE, err |-> ErrEOF]

UsDoc(health, state, conds) ==
    [ok |-> TRUE, Health |-> health, State |-> state, Conditions |-> conds]

InvDoc(ver, health, state, conds) ==
    [ok |-> TRUE, Version |-> ver, Health |-> health, State |-> state,
     Conditions |-> conds]

TaskDoc(id, name, state, msg) ==
    [ok |-> TRUE, ID |-> id, Name |-> name, TaskState |-> state, Message |-> msg]

TaskMembers ==
    { [ok |-> FALSE, err |-> ErrEOF] }
    \cup { TaskDoc(<<"1">>, name, state, Empty) :
             name \in { Empty, <<"F","i","r","m","w","a","r","e">>, <<"l","o","g">> },
             state \in { <<"R","u","n","n","i","n","g">>,
                         <<"C","o","m","p","l","e","t","e","d">> } }

FullUsReplies ==
    { FailedReply }
    \cup { UsDoc(h, s, c) :
             h \in { Empty, StrOk, StrCritical },
             s \in { Empty, <<"U","P","D","A","T","I","N","G">> },
             c \in SeqsOf(UsConds, 0, MaxConds) }

FullTaskReplies ==
    { FailedReply }
    \cup { [ok |-> TRUE, Members |-> m] : m \in SeqsOf(TaskMembers, 0, MaxTasks) }

FullInvReplies ==
    { FailedReply }
    \cup { InvDoc(v, h, s, c) :
             v \in { Empty, VerV1 },
             h \in { Empty, <<"O","k">>, StrCritical },
             s \in { Empty, <<"E","n","a","b","l","e","d">>,
                     <<"U","p","d","a","t","i","n","g">> },
             c \in SeqsOf(InvConds, 0, MaxConds) }

TerseUsReplies ==
    { FailedReply, UsDoc(StrOK, <<"U","p","d","a","t","i","n","g">>, << >>) }

BriefUsReplies ==
    TerseUsReplies
    \cup { UsDoc(StrCritical, Empty, << Cond(<<"b","a","d">>, IdE1, StrCritical) >>) }

TerseTaskReplies ==
    { [ok |-> TRUE, Members |-> << >>] }

TerseInvReplies ==
    { FailedReply,
      InvDoc(VerV1, StrOK, <<"E","n","a","b","l","e","d">>, << >>) }


(***************************************************************************)
(* State.                                                                  *)
(***************************************************************************)
VARIABLES
    cmd,            \* "status" (firmware status) or "firmware" (firmware)
    gateway,        \* the repertoire of the Gateway ("terse", "brief", "full",
                    \* or "fixed" with the reply of every resource) for
                    \* the host-level GETs and for the inventory GETs, or
                    \* "given" with the replies to one SimpleUpdate call
    hosts,          \* the host list
    targets,        \* the target list (fwTargets / defaultTargets)
    fwBatchSize,    \* --batch-size
    fwDryRun,       \* --dry-run
    fwExpectedVersion, \* --expected-version
    fwForce,        \* --force
    mainPc,         \* position of the command's own goroutine
    spawned,        \* hosts the loop over hosts has gone through
    pc,             \* position of each host unit (goroutine)
    tIdx,           \* index of the target the unit's loop is at
    perr,           \* the unit's host-level error text
    anyInProgress,  \* the unit's host-level in-progress flag
    us,             \* the unit's update-service snapshot (us, err)
    tasks,          \* the unit's active-task list (tasks, err)
    inv,            \* the unit's inventory of the current target (inv, err)
    tgt,            \* the unit's locals of the current target (perrTarget, ...)
    upErr,          \* the error SimpleUpdate returned for the unit's host
    sem,            \* number of elements in the channel sem
    mu,             \* the unit holding the mutex mu, 0 when unlocked
    wg,             \* the WaitGroup counter
    versionCounts,  \* map observed version -> count
    inProgress,     \* the in-progress counter
    errorsList,     \* map "<host> <target>" -> error text
    hostSummaries,  \* the record list
    summaryUnit,    \* for each record, the unit that appended it (history)
    calls,          \* for each unit, the Gateway calls it made (history)
    output,         \* what the command has written
    bmc,            \* the resource tree of the BMC that discovery reads
    nic,            \* the NIC handed to isValidMAC and isBootable
    sysPaths,       \* DiscoverAllBootableMACs: the system paths listed
    sysIdx,         \* index of the system the loop over sysPaths is at
    result,         \* the []SystemMACs built so far / returned
    discErr,        \* the error DiscoverAllBootableMACs returned
    discCalls,      \* the GETs discovery made (history)
    verdict,        \* what isValidMAC and isBootable returned for nic
    timeout,        \* --timeout (fwTimeout, discTimeout): 0 or a duration
    discDryRun,     \* discover --dry-run
    discSSHPubKey,  \* discover --ssh-pubkey: "none", "readable", "unreadable"
    bmcs,           \* discover: the resource tree of every BMC of doc.BMCs
    deadlineHit,    \* for each unit, a call of its context met the deadline
    found,          \* UpdateNodes: systemMACs, err and the nodes of each BMC
    freeIPs,        \* UpdateNodes: the addresses the node allocator has left
    out,            \* UpdateNodes: the node entries built so far
    written,        \* discover: the nodes written to the file, or None
    runErr          \* discover: the error RunE returned

vars == <<cmd, gateway, hosts, targets, fwBatchSize, fwDryRun,
          fwExpectedVersion, fwForce, mainPc, spawned, pc, tIdx, perr,
          anyInProgress, us, tasks, inv, tgt, upErr, sem, mu, wg, versionCounts,
          inProgress, errorsList, hostSummaries, summaryUnit, calls, output,
          bmc, nic, sysPaths, sysIdx, result, discErr, discCalls,
          verdict, timeout, discDryRun, discSSHPubKey, bmcs, deadlineHit,
          found, freeIPs, out, written, runErr>>

inputVars == <<cmd, gateway, hosts, targets, fwBatchSize, fwDryRun,
               fwExpectedVersion, fwForce, bmc, nic, timeout, discDryRun,
               discSSHPubKey, bmcs>>

nodesVars == <<found, freeIPs, out, written, runErr>>

discoverVars == <<sysPaths, sysIdx, result, discErr, discCalls, verdict>>

statusLocals == <<tIdx, perr, anyInProgress, us, tasks, inv, tgt>>

aggregates == <<versionCounts, inProgress, errorsList, hostSummaries,
                summaryUnit>>

Units == 1..Len(hosts)

None == [ok |-> FALSE, none |-> TRUE]

\* a Go error: nil, or an error with its text
NilError == [nil |-> TRUE, text |-> Empty]
ErrorOf(text) == [nil |-> FALSE, text |-> text]

UsReplies ==
    CASE gateway.host = "full"  -> FullUsReplies
      [] gateway.host = "brief" -> BriefUsReplies
      [] OTHER                  -> TerseUsReplies
TaskReplies == IF gateway.host = "full" THEN FullTaskReplies ELSE TerseTaskReplies
InvReplies  == IF gateway.target = "full" THEN FullInvReplies ELSE TerseInvReplies

\* the replies the Gateway may give to host h (and target t); a "fixed"
\* Gateway answers every request for the same resource with the same reply
UsRepliesFor(h) ==
    IF gateway.host = "fixed" THEN { gateway.us[h] } ELSE UsReplies

InvRepliesFor(h, t) ==
    IF gateway.target = "fixed" THEN { gateway.inv[<<h, t>>] } ELSE InvReplies

\* the error of a request whose context has reached its deadline
ErrDeadline ==
    <<"c","o","n","t","e","x","t"," ","d","e","a","d","l","i","n","e"," ",
      "e","x","c","e","e","d","e","d">>

DeadlineReply == [ok |-> FALSE, err |-> ErrDeadline]

\* firmware_status.go:120-125, firmware.go:117-121 and 165-169,
\* cmd/discover.go:102-107: the context gets a deadline only if timeout > 0
CtxWithOptionalTimeout(t) == IF t > 0 THEN "timed" ELSE "none"

\* the replies a request may get under the context ctx: without a deadline
\* ("none") the Gateway's; with one ("timed") also the deadline error, and
\* only that once the deadline has passed (hit); a context created with a
\* deadline that has already passed ("expired") cancels every request
Under(ctx, hit, replies) ==
    IF ctx = "expired" \/ (ctx = "timed" /\ hit) THEN { DeadlineReply }
    ELSE IF ctx = "timed" THEN replies \cup { DeadlineReply }
    ELSE replies

Max(a, b) == IF a >= b THEN a ELSE b

\* a slip: the batch size of the status query is not raised to 1
SemCapacityUnclamped == fwBatchSize

\* firmware_status.go:110 and firmware.go:155: the capacity of sem
SemCapacity ==
    IF cmd = "status" THEN Max(1, fwBatchSize) ELSE fwBatchSize

\* firmware_status.go:254: fmt.Sprintf("%s %s", h, target)
ErrorKey(h, target) == h \o <<" ">> \o target

\* m[k]++ on a Go map
MapIncr(m, k) ==
    IF k \in DOMAIN m THEN [m EXCEPT ![k] = @ + 1]
    ELSE [x \in DOMAIN m \cup {k} |-> IF x = k THEN 1 ELSE m[x]]

\* m[k] = v on a Go map
MapPut(m, k, v) == [x \in DOMAIN m \cup {k} |-> IF x = k THEN v ELSE m[x]]

EmptyMap == [x \in {} |-> 0]

(***************************************************************************)
(* Initial states: after flag parsing, before the loop over the hosts.     *)
(***************************************************************************)
InitCommon ==
    /\ mainPc = (IF cmd = "discover-run" THEN "start"
                 ELSE IF cmd = "discover" THEN "systems"
                 ELSE IF cmd = "nic" THEN "classify"
                 ELSE IF Len(hosts) > 0 THEN "spawn"
                 ELSE IF cmd = "firmware" /\ fwBatchSize <= 1 THEN "done"
                 ELSE "wait")
    /\ spawned = 0
    /\ pc = [u \in Units |-> "idle"]
    /\ tIdx = [u \in Units |-> 1]
    /\ perr = [u \in Units |-> Empty]
    /\ anyInProgress = [u \in Units |-> FALSE]
    /\ us = [u \in Units |-> None]
    /\ tasks = [u \in Units |-> None]
    /\ inv = [u \in Units |-> None]
    /\ tgt = [u \in Units |-> None]
    /\ upErr = [u \in Units |-> None]
    /\ sem = 0
    /\ mu = 0
    /\ wg = 0
    /\ versionCounts = EmptyMap
    /\ inProgress = 0
    /\ errorsList = EmptyMap
    /\ hostSummaries = << >>
    /\ summaryUnit = << >>
    /\ calls = [u \in Units |-> << >>]
    /\ output = << >>
    /\ sysPaths = << >>
    /\ sysIdx = 1
    /\ result = << >>
    /\ discErr = None
    /\ discCalls = << >>
    /\ verdict = None
    /\ deadlineHit = [u \in Units |-> FALSE]
    /\ found = [u \in Units |-> None]
    /\ out = << >>
    /\ written = None
    /\ runErr = NilError

\* the Gateway treats all host names alike, so the host lists that differ
\* only by exchanging the names stand for each other: the first host is "a"
FirstHostIsA == Len(hosts) > 0 => hosts[1] = <<"a">>

\* a command that reads no BMC resource tree and classifies no NIC
NoDiscoverRun ==
    /\ discDryRun = FALSE /\ discSSHPubKey = "none" /\ bmcs = << >>
    /\ freeIPs = 0

NoDiscovery == bmc = None /\ nic = None /\ NoDiscoverRun

\* a run without a deadline: --timeout 0 on the firmware commands
NoTimeout == timeout = 0

InitStatus ==
    /\ cmd = "status"
    /\ gateway = [host |-> "terse", target |-> "terse"]
    /\ hosts \in SeqsOf(HostNames, 1, MaxHosts)
    /\ FirstHostIsA
    /\ targets \in SeqsOf(TargetNames, 1, MaxTargets)
    /\ Len(hosts) * Len(targets) <= MaxRecords
    /\ fwBatchSize \in 0..MaxBatch
    /\ fwDryRun = FALSE
    /\ fwExpectedVersion = Empty
    /\ fwForce = FALSE
    /\ NoDiscovery
    /\ NoTimeout
    /\ InitCommon

(***************************************************************************)
(* firmware status: firmwareStatusCmd.RunE, lines 110-271.                 *)
(***************************************************************************)
\* lines 112-115: wg.Add(1); go func() {...}()
StatusSpawn ==
    /\ cmd = "status"
    /\ mainPc = "spawn"
    /\ spawned < Len(hosts)
    /\ wg' = wg + 1
    /\ spawned' = spawned + 1
    /\ pc' = [pc EXCEPT ![spawned + 1] = "acquire"]
    /\ mainPc' = IF spawned + 1 = Len(hosts) THEN "wait" ELSE "spawn"
    /\ UNCHANGED <<inputVars, nodesVars, deadlineHit, discoverVars, statusLocals, upErr, sem, mu, aggregates,
                   calls, output>>

\* a slip: the semaphore admits one unit too many
CanAcquireOneMore == sem <= SemCapacity

\* the send sem <- struct{}{} proceeds when the channel is not full
CanAcquire == sem < SemCapacity

\* line 117: sem <- struct{}{}
StatusAcquire(u) ==
    /\ cmd = "status"
    /\ pc[u] = "acquire"
    /\ CanAcquire
    /\ sem' = sem + 1
    /\ pc' = [pc EXCEPT ![u] = "us"]
    /\ UNCHANGED <<inputVars, nodesVars, deadlineHit, discoverVars, mainPc, spawned, statusLocals, upErr, mu, wg,
                   aggregates, calls, output>>

\* lines 130-154: GetUpdateServiceStatus and its evaluation
FetchUpdateService(u) ==
    /\ cmd = "status"
    /\ pc[u] = "us"
    /\ \E reply \in Under(CtxWithOptionalTimeout(timeout), deadlineHit[u],
                         UsRepliesFor(hosts[u])) :
         LET res == GetUpdateServiceStatus(reply)
             ev  == EvalUpdateService(res)
         IN  /\ deadlineHit' = [deadlineHit EXCEPT ![u] = @ \/ reply = DeadlineReply]
             /\ us' = [us EXCEPT ![u] = res]
             /\ perr' = [perr EXCEPT ![u] = ev.perr]
             /\ anyInProgress' = [anyInProgress EXCEPT ![u] = ev.anyInProgress]
             /\ pc' = [pc EXCEPT ![u] = IF ev.anyInProgress THEN "inv" ELSE "tasks"]
    /\ calls' = [calls EXCEPT ![u] = Append(@, <<"UpdateService">>)]
    /\ UNCHANGED <<inputVars, nodesVars, discoverVars, mainPc, spawned, tIdx, tasks, inv, tgt, upErr,
                   sem, mu, wg, aggregates, output>>

\* lines 157-163: GetActiveUpdateTasks, only when !anyInProgress
FetchTasks(u) ==
    /\ cmd = "status"
    /\ pc[u] = "tasks"
    /\ \E reply \in Under(CtxWithOptionalTimeout(timeout), deadlineHit[u],
                         TaskReplies) :
         LET res == GetActiveUpdateTasks(reply)
         IN  /\ deadlineHit' = [deadlineHit EXCEPT ![u] = @ \/ reply = DeadlineReply]
             /\ tasks' = [tasks EXCEPT ![u] = res]
             /\ anyInProgress' = [anyInProgress EXCEPT ![u] = EvalTasks(res)]
    /\ pc' = [pc EXCEPT ![u] = "inv"]
    /\ calls' = [calls EXCEPT ![u] = Append(@, <<"Tasks">>)]
    /\ UNCHANGED <<inputVars, nodesVars, discoverVars, mainPc, spawned, tIdx, perr, us, inv, tgt,
                   upErr, sem, mu, wg, aggregates, output>>

\* a slip: the targets are gone through from the end of the list
CurrentTargetReversed(u) == targets[Len(targets) + 1 - tIdx[u]]

\* line 166: for _, target := range targets
CurrentTarget(u) == targets[tIdx[u]]

\* lines 166-247: GetFirmwareInventory of the current target and the locals
\* of the iteration.  The snapshots us and tasks are not read again and are
\* dropped here.
FetchInventory(u) ==
    /\ cmd = "status"
    /\ pc[u] = "inv"
    /\ \E reply \in Under(CtxWithOptionalTimeout(timeout), deadlineHit[u],
                         InvRepliesFor(hosts[u], CurrentTarget(u))) :
         LET res == GetFirmwareInventory(reply)
         IN  /\ deadlineHit' = [deadlineHit EXCEPT ![u] = @ \/ reply = DeadlineReply]
             /\ inv' = [inv EXCEPT ![u] = res]
             /\ tgt' = [tgt EXCEPT ![u] =
                           TargetLocals(perr[u], anyInProgress[u], res)]
    /\ us' = [us EXCEPT ![u] = None]
    /\ tasks' = [tasks EXCEPT ![u] = None]
    /\ pc' = [pc EXCEPT ![u] = "lock"]
    /\ calls' = [calls EXCEPT ![u] = Append(@, <<"Inventory", CurrentTarget(u)>>)]
    /\ UNCHANGED <<inputVars, nodesVars, discoverVars, mainPc, spawned, tIdx, perr, anyInProgress,
                   upErr, sem, mu, wg, aggregates, output>>

\* a slip: the section is entered without taking the mutex
CanLockAlways == TRUE

\* mu.Lock() proceeds when the mutex is unlocked
CanLock == mu = 0

\* line 250: mu.Lock()
StatusLock(u) ==
    /\ cmd = "status"
    /\ pc[u] = "lock"
    /\ CanLock
    /\ mu' = u
    /\ pc' = [pc EXCEPT ![u] = "aggregate"]
    /\ UNCHANGED <<inputVars, nodesVars, deadlineHit, discoverVars, mainPc, spawned, statusLocals, upErr, sem, wg,
                   aggregates, calls, output>>

\* a lost update: the count read before another unit's increment is written
CountVersionLost(counts, rec) ==
    IF rec.ObservedVersion \in DOMAIN counts THEN counts
    ELSE MapIncr(counts, rec.ObservedVersion)

\* line 251: versionCounts[verTarget]++
CountVersion(counts, rec) == MapIncr(counts, rec.ObservedVersion)

\* lines 252-255: the error map entry of the record
RecordError(errs, rec) ==
    IF rec.Error # Empty
    THEN MapPut(errs, ErrorKey(rec.Host, rec.Target), rec.Error)
    ELSE errs

\* a lost update: an increment that overwrites a concurrent one
CountInProgressLost(n, rec) == IF rec.Status = "in-progress" THEN 1 ELSE n

\* lines 256-258: atomic.AddInt32(&inProgress, 1)
CountInProgress(n, rec) == IF rec.Status = "in-progress" THEN n + 1 ELSE n

\* lines 166, 268: the loop over the targets goes on or ends
AfterTarget(u) == IF tIdx[u] < Len(targets) THEN "inv" ELSE "finish"

\* lines 251-267: the aggregate update and mu.Unlock()
Aggregate(u) ==
    /\ cmd = "status"
    /\ pc[u] = "aggregate"
    /\ mu = u
    /\ LET rec == Summary(hosts[u], CurrentTarget(u), tgt[u])
       IN  /\ versionCounts' = CountVersion(versionCounts, rec)
           /\ errorsList' = RecordError(errorsList, rec)
           /\ inProgress' = CountInProgress(inProgress, rec)
           /\ hostSummaries' = Append(hostSummaries, rec)
           /\ summaryUnit' = Append(summaryUnit, u)
    /\ mu' = 0
    /\ tIdx' = [tIdx EXCEPT ![u] = @ + 1]
    /\ pc' = [pc EXCEPT ![u] = AfterTarget(u)]
    /\ UNCHANGED <<inputVars, nodesVars, deadlineHit, discoverVars, mainPc, spawned, perr, anyInProgress, us, tasks,
                   inv, tgt, upErr, sem, wg, calls, output>>

\* lines 116, 118: the deferred <-sem, then the deferred wg.Done()
StatusFinish(u) ==
    /\ cmd = "status"
    /\ pc[u] = "finish"
    /\ sem' = sem - 1
    /\ wg' = wg - 1
    /\ pc' = [pc EXCEPT ![u] = "done"]
    /\ UNCHANGED <<inputVars, nodesVars, deadlineHit, discoverVars, mainPc, spawned, statusLocals, upErr, mu,
                   aggregates, calls, output>>

\* a slip: the command does not wait for the host units
CanPassBarrierNoWait == TRUE

\* wg.Wait() returns when the counter is zero
CanPassBarrier == wg = 0

\* line 271: wg.Wait()
StatusWait ==
    /\ cmd = "status"
    /\ mainPc = "wait"
    /\ CanPassBarrier
    /\ mainPc' = "output"
    /\ UNCHANGED <<inputVars, nodesVars, deadlineHit, discoverVars, spawned, pc, statusLocals, upErr, sem, mu, wg,
                   aggregates, calls, output>>

\* lines 273-305: the report (JSON: the records; text: the aggregates)
StatusOutput ==
    /\ cmd = "status"
    /\ mainPc = "output"
    /\ output' = <<[records |-> hostSummaries, inProgress |-> inProgress,
                    versions |-> versionCounts, errors |-> errorsList]>>
    /\ mainPc' = "done"
    /\ UNCHANGED <<inputVars, nodesVars, deadlineHit, discoverVars, spawned, pc, statusLocals, upErr, sem, mu, wg,
                   aggregates, calls>>

NextStatus ==
    \/ StatusSpawn
    \/ \E u \in Units : StatusAcquire(u)
    \/ \E u \in Units : FetchUpdateService(u)
    \/ \E u \in Units : FetchTasks(u)
    \/ \E u \in Units : FetchInventory(u)
    \/ \E u \in Units : StatusLock(u)
    \/ \E u \in Units : Aggregate(u)
    \/ \E u \in Units : StatusFinish(u)
    \/ StatusWait
    \/ StatusOutput


(***************************************************************************)
(* SimpleUpdate (client.go:459-523).                                       *)
(***************************************************************************)
StrSkippingUpdate ==
    <<"s","k","i","p","p","i","n","g"," ","u","p","d","a","t","e">>

StrSkipPrefix ==
    <<"s","k","i","p","p","i","n","g"," ","u","p","d","a","t","e",":",
      " ","a","l","l"," ","t","a","r","g","e","t","s"," ","a","l","r",
      "e","a","d","y"," ","a","t"," ","e","x","p","e","c","t","e","d",
      " ","v","e","r","s","i","o","n"," ">>

StrCompletedPrefix ==
    <<"f","i","r","m","w","a","r","e"," ","u","p","d","a","t","e"," ",
      "c","o","m","p","l","e","t","e","d"," ","w","i","t","h"," ","w",
      "a","r","n","i","n","g","s","/","e","r","r","o","r","s",":">>

\* the newline of the error texts
NL == <<"\n">>

\* strings.Join(parts, sep)
RECURSIVE Join(_, _)
Join(parts, sep) ==
    IF parts = << >> THEN Empty
    ELSE IF Len(parts) = 1 THEN parts[1]
    ELSE parts[1] \o sep \o Join(Tail(parts), sep)

\* lines 463: the pre-flight check is made
PreflightWanted(expectedVersion, force) == expectedVersion # Empty /\ ~force

\* lines 467-480: versionInfo, one entry per target whose GET succeeded
RECURSIVE VersionInfo(_, _)
VersionInfo(tgts, pre) ==
    IF tgts = << >> THEN << >>
    ELSE IF ~Head(pre).ok THEN VersionInfo(Tail(tgts), Tail(pre))
    ELSE <<Head(tgts) \o <<":"," ">> \o Head(pre).Version>>
         \o VersionInfo(Tail(tgts), Tail(pre))

\* a slip: a target whose GET fails does not clear allAtExpectedVersion
AllAtExpectedVersionOfFetched(pre, expectedVersion) ==
    \A i \in 1..Len(pre) : pre[i].ok => pre[i].Version = expectedVersion

\* lines 464-480: allAtExpectedVersion after the loop
AllAtExpectedVersion(pre, expectedVersion) ==
    \A i \in 1..Len(pre) : pre[i].ok /\ pre[i].Version = expectedVersion

\* a slip: the skip needs the versions of more than one target
SkipTakenOffByOne(tgts, expectedVersion, force, pre) ==
    /\ PreflightWanted(expectedVersion, force)
    /\ \A i \in 1..Len(pre) : pre[i].ok /\ pre[i].Version = expectedVersion
    /\ Len(VersionInfo(tgts, pre)) > 1

\* line 482: the skip is taken
SkipTaken(tgts, expectedVersion, force, pre) ==
    /\ PreflightWanted(expectedVersion, force)
    /\ AllAtExpectedVersion(pre, expectedVersion)
    /\ Len(VersionInfo(tgts, pre)) > 0

\* a slip: only Critical conditions are reported by the post-check
IsReportedSeverityCriticalOnly(c) == c.Severity = StrCritical

\* line 512: the condition is reported by the post-check
IsReportedSeverity(c) == c.Severity = StrWarning \/ c.Severity = StrCritical

\* lines 511-515: the statusErrors of one fetched target
RECURSIVE TargetStatusErrors(_, _)
TargetStatusErrors(target, conds) ==
    IF conds = << >> THEN << >>
    ELSE LET c == Head(conds)
         IN  (IF IsReportedSeverity(c)
              THEN << <<"[">> \o target \o <<"]"," ">> \o c.Severity
                      \o <<":"," ">> \o c.Message >>
              ELSE << >>)
             \o TargetStatusErrors(target, Tail(conds))

\* lines 502-516: statusErrors; a target whose GET fails is skipped
RECURSIVE StatusErrors(_, _)
StatusErrors(tgts, chk) ==
    IF tgts = << >> THEN << >>
    ELSE (IF Head(chk).ok
          THEN TargetStatusErrors(Head(tgts), Head(chk).Conditions)
          ELSE << >>)
         \o StatusErrors(Tail(tgts), Tail(chk))

\* the GETs of one loop over the targets
Gets(tgts) == [i \in 1..Len(tgts) |-> <<"GET", tgts[i]>>]


\* SimpleUpdate: the error returned and the Gateway calls made, given the
\* replies to the pre-flight GETs (pre), to the POST (post) and to the
\* post-check GETs (chk)
SimpleUpdate(tgts, expectedVersion, force, pre, post, chk) ==
    LET preCalls == IF PreflightWanted(expectedVersion, force)
                    THEN Gets(tgts) ELSE << >>
    IN  IF SkipTaken(tgts, expectedVersion, force, pre)
        THEN [err |-> ErrorOf(StrSkipPrefix \o expectedVersion \o NL
                              \o Join(VersionInfo(tgts, pre), NL)),
              calls |-> preCalls]
        ELSE IF ~post.ok
        THEN [err |-> ErrorOf(post.err), calls |-> Append(preCalls, <<"POST">>)]
        ELSE LET errs == StatusErrors(tgts, chk)
             IN  [err |-> IF Len(errs) > 0
                          THEN ErrorOf(StrCompletedPrefix \o NL \o Join(errs, NL))
                          ELSE NilError,
                  calls |-> Append(preCalls, <<"POST">>) \o Gets(tgts)]


(***************************************************************************)
(* firmware: firmwareCmd.RunE, lines 113-207.                              *)
(***************************************************************************)
PostReplies == { [ok |-> TRUE], FailedReply }

\* the replies of the firmware-inventory GETs made by SimpleUpdate
UpdateReplies == InvReplies

InitFirmware ==
    /\ cmd = "firmware"
    /\ gateway = [host |-> "terse", target |-> "terse"]
    /\ hosts \in SeqsOf(HostNames, 0, MaxHosts)
    /\ FirstHostIsA
    /\ targets \in SeqsOf(TargetNames, 1, MaxTargets)
    /\ Len(hosts) * Len(targets) <= MaxRecords
    /\ fwBatchSize \in 0..MaxBatch
    /\ fwDryRun \in BOOLEAN
    /\ fwExpectedVersion \in { Empty, VerV1 }
    /\ fwForce \in BOOLEAN
    /\ NoDiscovery
    /\ NoTimeout
    /\ InitCommon

\* line 114: serial or parallel execution
Serial == fwBatchSize <= 1

\* lines 141-150 and 192-201: the line written for a host
ResultLine(h, err) ==
    IF ~err.nil
    THEN IF Contains(err.text, StrSkippingUpdate)
         THEN [stream |-> "stdout", host |-> h, kind |-> "skipped", text |-> err.text]
         ELSE [stream |-> "stderr", host |-> h, kind |-> "failed", text |-> err.text]
    ELSE [stream |-> "stdout", host |-> h, kind |-> "triggered", text |-> Empty]

\* lines 123-131 and 175-184: the planned action written for a host
DryRunLine(h) ==
    [stream |-> "stdout", host |-> h, kind |-> "dry-run",
     text |-> IF fwExpectedVersion # Empty THEN fwExpectedVersion ELSE Empty]

\* the replies the Gateway may give to the requests of one SimpleUpdate
\* call: to the pre-flight GETs, to the POST and to the post-check GETs; a
\* "given" Gateway has them laid down
UpdateWorlds ==
    IF gateway.target = "given"
    THEN { [pre |-> gateway.pre, post |-> gateway.post, chk |-> gateway.chk] }
    ELSE { [pre |-> pre, post |-> post, chk |-> chk] :
             pre \in [1..Len(targets) -> UpdateReplies],
             post \in PostReplies,
             chk \in [1..Len(targets) -> UpdateReplies] }

\* the replies of w when the deadline passes before the k-th request, the
\* requests counted as pre-flight GETs, POST, post-check GETs
CutWorld(w, k) ==
    LET n == Len(targets)
    IN  [pre  |-> [i \in 1..n |-> IF i >= k THEN DeadlineReply ELSE w.pre[i]],
         post |-> IF n + 1 >= k THEN DeadlineReply ELSE w.post,
         chk  |-> [i \in 1..n |-> IF n + 1 + i >= k THEN DeadlineReply
                                  ELSE w.chk[i]]]

\* the replies to the requests of one SimpleUpdate call under context ctx
WorldsUnder(ctx) ==
    IF ctx = "timed"
    THEN UpdateWorlds
         \cup { CutWorld(w, k) : w \in UpdateWorlds, k \in 1..(2 * Len(targets) + 1) }
    ELSE UpdateWorlds

\* a request that SimpleUpdate made met the deadline
DeadlineSeen(w) ==
    \/ /\ PreflightWanted(fwExpectedVersion, fwForce)
       /\ \E i \in 1..Len(targets) : w.pre[i] = DeadlineReply
    \/ /\ ~SkipTaken(targets, fwExpectedVersion, fwForce, w.pre)
       /\ \/ w.post = DeadlineReply
          \/ w.post.ok /\ \E i \in 1..Len(targets) : w.chk[i] = DeadlineReply

\* the call redfish.SimpleUpdate(...) of unit u, with the Gateway's replies
CallSimpleUpdate(u) ==
    \E w \in WorldsUnder(CtxWithOptionalTimeout(timeout)) :
        LET r == SimpleUpdate(targets, fwExpectedVersion, fwForce,
                              w.pre, w.post, w.chk)
        IN  /\ upErr' = [upErr EXCEPT ![u] = r.err]
            /\ calls' = [calls EXCEPT ![u] = @ \o r.calls]
            /\ deadlineHit' = [deadlineHit EXCEPT ![u] = DeadlineSeen(w)]

\* lines 116-137: serial mode, SimpleUpdate on the next host
SerialUpdate ==
    /\ cmd = "firmware"
    /\ Serial
    /\ mainPc = "spawn"
    /\ spawned < Len(hosts)
    /\ ~fwDryRun
    /\ pc[spawned + 1] = "idle"
    /\ CallSimpleUpdate(spawned + 1)
    /\ pc' = [pc EXCEPT ![spawned + 1] = "print"]
    /\ UNCHANGED <<inputVars, nodesVars, discoverVars, mainPc, spawned, statusLocals, sem, mu, wg,
                   aggregates, output>>

\* lines 122-136 and 141-150: serial mode, the line of the host
SerialPrint ==
    /\ cmd = "firmware"
    /\ Serial
    /\ mainPc = "spawn"
    /\ spawned < Len(hosts)
    /\ LET u == spawned + 1
       IN  /\ IF fwDryRun THEN pc[u] = "idle" ELSE pc[u] = "print"
           /\ output' = Append(output, IF fwDryRun THEN DryRunLine(hosts[u])
                                       ELSE ResultLine(hosts[u], upErr[u]))
           /\ pc' = [pc EXCEPT ![u] = "done"]
    /\ spawned' = spawned + 1
    /\ mainPc' = IF spawned + 1 = Len(hosts) THEN "done" ELSE "spawn"
    /\ UNCHANGED <<inputVars, nodesVars, deadlineHit, discoverVars, statusLocals, upErr, sem, mu, wg, aggregates,
                   calls>>

\* lines 158-160: wg.Add(1); go func(h string) {...}(host)
FirmwareSpawn ==
    /\ cmd = "firmware"
    /\ ~Serial
    /\ mainPc = "spawn"
    /\ spawned < Len(hosts)
    /\ wg' = wg + 1
    /\ spawned' = spawned + 1
    /\ pc' = [pc EXCEPT ![spawned + 1] = "acquire"]
    /\ mainPc' = IF spawned + 1 = Len(hosts) THEN "wait" ELSE "spawn"
    /\ UNCHANGED <<inputVars, nodesVars, deadlineHit, discoverVars, statusLocals, upErr, sem, mu, aggregates,
                   calls, output>>

\* a slip: the dry run is not looked at in parallel mode
FirmwareAcquireThenUpdate(u) ==
    /\ cmd = "firmware"
    /\ pc[u] = "acquire"
    /\ CanAcquire
    /\ sem' = sem + 1
    /\ pc' = [pc EXCEPT ![u] = "update"]
    /\ UNCHANGED <<inputVars, nodesVars, deadlineHit, discoverVars, mainPc,
                   spawned, statusLocals, upErr, mu, wg, aggregates, calls,
                   output>>

\* line 162: sem <- struct{}{}
FirmwareAcquire(u) ==
    /\ cmd = "firmware"
    /\ pc[u] = "acquire"
    /\ CanAcquire
    /\ sem' = sem + 1
    /\ pc' = [pc EXCEPT ![u] = IF fwDryRun THEN "lock" ELSE "update"]
    /\ UNCHANGED <<inputVars, nodesVars, deadlineHit, discoverVars, mainPc, spawned, statusLocals, upErr, mu, wg,
                   aggregates, calls, output>>

\* line 189: redfish.SimpleUpdate
FirmwareUpdate(u) ==
    /\ cmd = "firmware"
    /\ pc[u] = "update"
    /\ CallSimpleUpdate(u)
    /\ pc' = [pc EXCEPT ![u] = "lock"]
    /\ UNCHANGED <<inputVars, nodesVars, discoverVars, mainPc, spawned, statusLocals, sem, mu, wg,
                   aggregates, output>>

\* lines 183 and 191: mu.Lock()
FirmwareLock(u) ==
    /\ cmd = "firmware"
    /\ pc[u] = "lock"
    /\ CanLock
    /\ mu' = u
    /\ pc' = [pc EXCEPT ![u] = "print"]
    /\ UNCHANGED <<inputVars, nodesVars, deadlineHit, discoverVars, mainPc, spawned, statusLocals, upErr, sem, wg,
                   aggregates, calls, output>>

\* lines 184-185 and 192-202: the line of the host and mu.Unlock()
FirmwarePrint(u) ==
    /\ cmd = "firmware"
    /\ ~Serial
    /\ pc[u] = "print"
    /\ mu = u
    /\ output' = Append(output, IF fwDryRun THEN DryRunLine(hosts[u])
                                ELSE ResultLine(hosts[u], upErr[u]))
    /\ mu' = 0
    /\ pc' = [pc EXCEPT ![u] = "finish"]
    /\ UNCHANGED <<inputVars, nodesVars, deadlineHit, discoverVars, mainPc, spawned, statusLocals, upErr, sem, wg,
                   aggregates, calls>>

\* lines 161, 163: the deferred <-sem, then the deferred wg.Done()
FirmwareFinish(u) ==
    /\ cmd = "firmware"
    /\ pc[u] = "finish"
    /\ sem' = sem - 1
    /\ wg' = wg - 1
    /\ pc' = [pc EXCEPT ![u] = "done"]
    /\ UNCHANGED <<inputVars, nodesVars, deadlineHit, discoverVars, mainPc, spawned, statusLocals, upErr, mu,
                   aggregates, calls, output>>

\* line 205: wg.Wait(), then return nil
FirmwareWait ==
    /\ cmd = "firmware"
    /\ mainPc = "wait"
    /\ CanPassBarrier
    /\ mainPc' = "done"
    /\ UNCHANGED <<inputVars, nodesVars, deadlineHit, discoverVars, spawned, pc, statusLocals, upErr, sem, mu, wg,
                   aggregates, calls, output>>

NextFirmware ==
    \/ SerialUpdate
    \/ SerialPrint
    \/ FirmwareSpawn
    \/ \E u \in Units : FirmwareAcquire(u)
    \/ \E u \in Units : FirmwareUpdate(u)
    \/ \E u \in Units : FirmwareLock(u)
    \/ \E u \in Units : FirmwarePrint(u)
    \/ \E u \in Units : FirmwareFinish(u)
    \/ FirmwareWait

\* another version than VerV1
VerV2 == <<"v","2">>

\* the replies to the pre-flight GETs: a failure, the versions v1 and v2,
\* and a document without a version
PreflightReplies ==
    { FailedReply }
    \cup { InvDoc(v, StrOK, <<"E","n","a","b","l","e","d">>, << >>) :
             v \in { VerV1, VerV2, Empty } }

\* the replies to the post-check GETs: a failure, no condition, a condition
\* of severity "OK", and a condition of severity "OK" before a Warning
PostCheckReplies ==
    { FailedReply,
      InvDoc(VerV1, StrOK, <<"E","n","a","b","l","e","d">>, << >>),
      InvDoc(VerV1, StrOK, <<"E","n","a","b","l","e","d">>,
             << Cond(<<"f","i","n","e">>, Empty, StrOK) >>),
      InvDoc(VerV1, StrWarning, <<"E","n","a","b","l","e","d">>,
             << Cond(<<"f","i","n","e">>, Empty, StrOK),
                Cond(<<"b","a","d">>, Empty, StrWarning) >>) }

\* client.go:255: the error of a POST answered with a status >= 300
PostError(status, body) ==
    <<"r","e","d","f","i","s","h"," ","P","O","S","T",":"," ">>
    \o status \o <<":"," ">> \o body

\* the replies to the POST: accepted, a transport failure, and a refusal
\* whose body says that the BMC is skipping the update
GivenPostReplies ==
    PostReplies
    \cup { [ok |-> FALSE, err |-> PostError(<<"4","0","0">>, StrSkippingUpdate)] }

\* the firmware command on one host, serially, against a Gateway whose
\* replies to the SimpleUpdate call are laid down
InitUpdate ==
    /\ cmd = "firmware"
    /\ hosts = << <<"a">> >>
    /\ targets \in SeqsOf(TargetNames, 1, MaxTargets)
    /\ fwBatchSize = 1
    /\ fwDryRun = FALSE
    /\ fwExpectedVersion \in { Empty, VerV1 }
    /\ fwForce \in BOOLEAN
    /\ \E pre \in [1..Len(targets) -> PreflightReplies],
          post \in GivenPostReplies,
          chk \in [1..Len(targets) -> PostCheckReplies] :
          gateway = [host |-> "terse", target |-> "given",
                     pre |-> pre, post |-> post, chk |-> chk]
    /\ NoDiscovery
    /\ NoTimeout
    /\ InitCommon

NextUpdate == SerialUpdate \/ SerialPrint

SpecUpdate == InitUpdate /\ [][NextUpdate]_vars

(***************************************************************************)
(* Discovery: isBootable, isValidMAC and DiscoverAllBootableMACs           *)
(* (client.go:297-420).                                                    *)
(***************************************************************************)
StrPxe   == <<"p","x","e">>
StrIpv4  == <<"i","p","v","4">>
StrIpv6  == <<"i","p","v","6">>
StrMacParen == <<"m","a","c","(">>
StrDhcp  == <<"d","h","c","p">>
StrNotAvailable == <<"N","o","t"," ","A","v","a","i","l","a","b","l","e">>

ErrNoSystems ==
    <<"n","o"," ","s","y","s","t","e","m","s"," ","r","e","p","o","r","t",
      "e","d"," ","b","y"," ","B","M","C">>

\* a slip: the DHCP address origin is not looked at
isBootableNoDhcp(n) ==
    LET uefi == ToLower(n.UefiDevicePath)
    IN  \/ Contains(uefi, StrPxe) \/ Contains(uefi, StrIpv4)
          \/ Contains(uefi, StrIpv6) \/ Contains(uefi, StrMacParen)
        \/ /\ n.MACAddress # Empty
           /\ n.InterfaceEnabled \in {"nil", "true"}

\* a slip: a MAC makes the NIC bootable whatever InterfaceEnabled says
isBootableNoEnabledCheck(n) ==
    LET uefi == ToLower(n.UefiDevicePath)
    IN  \/ Contains(uefi, StrPxe) \/ Contains(uefi, StrIpv4)
          \/ Contains(uefi, StrIpv6) \/ Contains(uefi, StrMacParen)
        \/ \E i \in 1..Len(n.IPv4Addresses) :
              EqualFold(n.IPv4Addresses[i].Origin, StrDhcp)
        \/ n.MACAddress # Empty

\* client.go:328-342
isBootable(n) ==
    LET uefi == ToLower(n.UefiDevicePath)
    IN  \/ Contains(uefi, StrPxe) \/ Contains(uefi, StrIpv4)
          \/ Contains(uefi, StrIpv6) \/ Contains(uefi, StrMacParen)
        \/ \E i \in 1..Len(n.IPv4Addresses) :
              EqualFold(n.IPv4Addresses[i].Origin, StrDhcp)
        \/ /\ n.MACAddress # Empty
           /\ n.InterfaceEnabled \in {"nil", "true"}

\* line 351: r == ':' || r == '-'
IsMacSeparator(c) == c = ":" \/ c = "-"

\* strings.FieldsFunc: the maximal runs of non-separator characters; cur is
\* the run being read
RECURSIVE FieldsFunc(_, _)
FieldsFunc(s, cur) ==
    LET done == IF cur = << >> THEN << >> ELSE <<cur>>
    IN  IF s = << >> THEN done
        ELSE IF IsMacSeparator(Head(s)) THEN done \o FieldsFunc(Tail(s), << >>)
        ELSE FieldsFunc(Tail(s), Append(cur, Head(s)))

\* lines 359-363: the character is a hexadecimal digit
IsHexChar(c) ==
    c \in {"0","1","2","3","4","5","6","7","8","9",
           "a","b","c","d","e","f","A","B","C","D","E","F"}

\* client.go:345-368
isValidMAC(mac) ==
    IF mac = Empty \/ EqualFold(mac, StrNotAvailable) THEN FALSE
    ELSE LET parts == FieldsFunc(mac, << >>)
         IN  /\ Len(parts) = 6
             /\ \A i \in 1..Len(parts) :
                  /\ Len(parts[i]) = 2
                  /\ \A j \in 1..Len(parts[i]) : IsHexChar(parts[i][j])

\* client.go:297-309: the system paths, or the error
listSystemPaths(reply) ==
    IF ~reply.ok THEN [err |-> ErrorOf(reply.err), paths |-> << >>]
    ELSE IF Len(reply.Members) = 0
         THEN [err |-> ErrorOf(ErrNoSystems), paths |-> << >>]
    ELSE [err |-> NilError, paths |-> reply.Members]

\* the positions of the members whose GET fails
FailedMembers(listing) ==
    { i \in 1..Len(listing.Members) : ~listing.Members[i].ok }

\* a slip: a member GET that fails ends the listing with the NICs read so far
listEthernetInterfacesPartial(listing) ==
    IF ~listing.ok THEN [err |-> ErrorOf(listing.err), nics |-> << >>, gets |-> 0]
    ELSE IF FailedMembers(listing) # {}
         THEN LET first == CHOOSE i \in FailedMembers(listing) :
                               \A j \in FailedMembers(listing) : i <= j
              IN  [err |-> NilError, nics |-> SubSeq(listing.Members, 1, first - 1),
                   gets |-> first]
    ELSE [err |-> NilError, nics |-> listing.Members,
          gets |-> Len(listing.Members)]

\* client.go:311-326: the NICs of a system, or the error of the first GET
\* that fails; gets is the number of member GETs made
listEthernetInterfaces(listing) ==
    IF ~listing.ok THEN [err |-> ErrorOf(listing.err), nics |-> << >>, gets |-> 0]
    ELSE IF FailedMembers(listing) # {}
         THEN LET first == CHOOSE i \in FailedMembers(listing) :
                               \A j \in FailedMembers(listing) : i <= j
              IN  [err |-> ErrorOf(listing.Members[first].err), nics |-> << >>,
                   gets |-> first]
    ELSE [err |-> NilError, nics |-> listing.Members,
          gets |-> Len(listing.Members)]

\* lines 395-402: the lower-cased MACs of the valid bootable NICs, in order
RECURSIVE BootableMACs(_)
BootableMACs(nics) ==
    IF nics = << >> THEN << >>
    ELSE (IF isValidMAC(Head(nics).MACAddress) /\ isBootable(Head(nics))
          THEN <<ToLower(Head(nics).MACAddress)>> ELSE << >>)
         \o BootableMACs(Tail(nics))

\* lines 404-409: the lower-cased first valid MAC, if there is one
RECURSIVE FirstValidMAC(_)
FirstValidMAC(nics) ==
    IF nics = << >> THEN << >>
    ELSE IF isValidMAC(Head(nics).MACAddress)
         THEN <<ToLower(Head(nics).MACAddress)>>
    ELSE FirstValidMAC(Tail(nics))

\* a slip: no fallback to the first valid MAC
CollectMACsNoFallback(nics) == BootableMACs(nics)

\* lines 394-410: macs
CollectMACs(nics) ==
    IF Len(BootableMACs(nics)) = 0 THEN FirstValidMAC(nics)
    ELSE BootableMACs(nics)

\* the Gateway's resources
SysNames == { <<"/","1">>, <<"/","2">> }

Nic(mac, uefi, origins, enabled) ==
    [ok |-> TRUE, MACAddress |-> mac, UefiDevicePath |-> uefi,
     IPv4Addresses |-> [i \in 1..Len(origins) |-> [Origin |-> origins[i]]],
     InterfaceEnabled |-> enabled]

\* six groups joined by one separator
MacOf(groups, sep) == Join(groups, sep)

MacUpperA ==
    MacOf(<< <<"A","A">>, <<"B","B">>, <<"C","C">>, <<"D","D">>, <<"E","E">>,
             <<"0","1">> >>, <<":">>)

MacLowerB ==
    MacOf(<< <<"a","a">>, <<"b","b">>, <<"c","c">>, <<"d","d">>, <<"e","e">>,
             <<"0","2">> >>, <<"-">>)

MacMixedD ==
    MacOf(<< <<"a","A">>, <<"b","B">>, <<"c","C">>, <<"d","D">>, <<"e","E">>,
             <<"0","3">> >>, <<":">>)

\* NICs of a discovery pass: bootable by its MAC; valid MAC but disabled;
\* PXE device path but no MAC; disabled but with a DHCP address
NicReplies ==
    { FailedReply,
      Nic(MacUpperA, Empty, << >>, "nil"),
      Nic(MacLowerB, Empty, << >>, "false"),
      Nic(StrNotAvailable, <<"P","X","E">>, << >>, "true"),
      Nic(MacMixedD, Empty, << <<"D","H","C","P">> >>, "false") }

NicListings ==
    { FailedReply }
    \cup { [ok |-> TRUE, Members |-> m] : m \in SeqsOf(NicReplies, 0, MaxNics) }

\* the second system has a short repertoire
ShortNicListings ==
    { FailedReply,
      [ok |-> TRUE, Members |-> << >>],
      [ok |-> TRUE, Members |-> << Nic(MacLowerB, Empty, << >>, "false") >>],
      [ok |-> TRUE, Members |-> << Nic(MacUpperA, Empty, << >>, "nil") >>] }

SystemsReplies ==
    { FailedReply }
    \cup { [ok |-> TRUE, Members |-> m] : m \in SeqsOf(SysNames, 0, MaxSystems) }

InitDiscover ==
    /\ cmd = "discover"
    /\ gateway = [host |-> "terse", target |-> "terse"]
    /\ hosts = << <<"a">> >>
    /\ targets = << >>
    /\ fwBatchSize = 0
    /\ fwDryRun = FALSE
    /\ fwExpectedVersion = Empty
    /\ fwForce = FALSE
    /\ \E sys \in SystemsReplies, l1 \in NicListings, l2 \in ShortNicListings :
          bmc = [systems |-> sys,
                 nics |-> [p \in SysNames |-> IF p = <<"/","1">> THEN l1 ELSE l2]]
    /\ nic = None
    /\ NoDiscoverRun
    /\ NoTimeout
    /\ InitCommon

\* lines 379-385: listSystemPaths; an error ends the pass
ListSystems ==
    /\ cmd = "discover"
    /\ mainPc = "systems"
    /\ LET r == listSystemPaths(bmc.systems)
       IN  /\ discErr' = r.err
           /\ sysPaths' = r.paths
           /\ mainPc' = IF r.err.nil THEN "system" ELSE "done"
    /\ discCalls' = Append(discCalls, <<"GET", <<"/","S","y","s","t","e","m","s">> >>)
    /\ UNCHANGED <<inputVars, nodesVars, deadlineHit, spawned, pc, statusLocals, upErr, sem, mu, wg,
                   aggregates, calls, output, sysIdx, result, verdict>>

\* the GETs of listEthernetInterfaces for one system
NicCalls(sysPath, gets) ==
    << <<"GET", sysPath, "EthernetInterfaces">> >>
    \o [i \in 1..gets |-> <<"GET", sysPath, i>>]

\* lines 386-418: one iteration of the loop over sysPaths
DiscoverSystem ==
    /\ cmd = "discover"
    /\ mainPc = "system"
    /\ sysIdx <= Len(sysPaths)
    /\ LET sysPath == sysPaths[sysIdx]
           l == listEthernetInterfaces(bmc.nics[sysPath])
           macs == CollectMACs(l.nics)
       IN  /\ result' = IF l.err.nil /\ Len(macs) > 0
                         THEN Append(result, [SystemPath |-> sysPath, MACs |-> macs])
                         ELSE result
           /\ discCalls' = discCalls \o NicCalls(sysPath, l.gets)
    /\ sysIdx' = sysIdx + 1
    /\ mainPc' = IF sysIdx = Len(sysPaths) THEN "done" ELSE "system"
    /\ UNCHANGED <<inputVars, nodesVars, deadlineHit, spawned, pc, statusLocals, upErr, sem, mu, wg,
                   aggregates, calls, output, sysPaths, discErr, verdict>>

NextDiscover == ListSystems \/ DiscoverSystem

SpecDiscover == InitDiscover /\ [][NextDiscover]_vars

(***************************************************************************)
(* isValidMAC and isBootable applied to one NIC.                           *)
(***************************************************************************)
\* the six groups of the MACs below
MacGroups ==
    << <<"0","A">>, <<"1","b">>, <<"2","C">>, <<"3","d">>, <<"4","E">>, <<"5","f">> >>

\* groups joined by the separators seps[1], seps[2], ...
RECURSIVE JoinWith(_, _)
JoinWith(groups, seps) ==
    IF Len(groups) <= 1 THEN Join(groups, Empty)
    ELSE Head(groups) \o Head(seps) \o JoinWith(Tail(groups), Tail(seps))

Colons(n) == [i \in 1..n |-> <<":">>]

\* the MACAddress values: absent, "Not Available", six groups with every
\* choice of ":" and "-" between them, and malformed ones
MacCandidates ==
    { Empty, StrNotAvailable, ToLower(StrNotAvailable),
      <<"N","O","T"," ","A","V","A","I","L","A","B","L","E">> }
    \cup { JoinWith(MacGroups, seps) : seps \in [1..5 -> { <<":">>, <<"-">> }] }
    \cup { JoinWith(SubSeq(MacGroups, 1, 5), Colons(4)),
           JoinWith(MacGroups \o << <<"6","0">> >>, Colons(6)),
           JoinWith(<< <<"0">> >> \o Tail(MacGroups), Colons(5)),
           JoinWith(<< <<"0","A","0">> >> \o Tail(MacGroups), Colons(5)),
           JoinWith(<< <<"0","G">> >> \o Tail(MacGroups), Colons(5)),
           JoinWith(<< <<"z","z">> >> \o Tail(MacGroups), Colons(5)),
           JoinWith(MacGroups, << <<":",":">> >> \o Colons(4)),
           <<":">> \o JoinWith(MacGroups, Colons(5)),
           JoinWith(MacGroups, Colons(5)) \o <<"-">>,
           JoinWith(MacGroups, [i \in 1..5 |-> Empty]),
           JoinWith(MacGroups, [i \in 1..5 |-> <<" ">>]),
           JoinWith(MacGroups, [i \in 1..5 |-> <<".">>]) }

UefiCandidates ==
    { Empty,
      <<"V","e","n","H","w","(","P","X","E",")">>,
      <<"I","P","v","4","(","0",")">>,
      <<"i","p","V","6">>,
      <<"M","A","C","(","0","A",")">>,
      <<"m","a","c">>,
      <<"U","s","b","(","1",")">> }

OriginCandidates ==
    { << >>,
      << <<"S","t","a","t","i","c">> >>,
      << <<"S","t","a","t","i","c">>, <<"D","H","C","P">> >>,
      << <<"d","h","c","p">> >>,
      << <<"D","H","C","P","v","6">> >> }

NicCandidates ==
    { Nic(mac, uefi, origins, enabled) :
        mac \in MacCandidates, uefi \in UefiCandidates,
        origins \in OriginCandidates, enabled \in {"nil", "true", "false"} }

InitNic ==
    /\ cmd = "nic"
    /\ gateway = [host |-> "terse", target |-> "terse"]
    /\ hosts = << >>
    /\ targets = << >>
    /\ fwBatchSize = 0
    /\ fwDryRun = FALSE
    /\ fwExpectedVersion = Empty
    /\ fwForce = FALSE
    /\ bmc = None
    /\ nic \in NicCandidates
    /\ NoDiscoverRun
    /\ NoTimeout
    /\ InitCommon

\* isValidMAC(nic.MACAddress) and isBootable(nic)
ClassifyNic ==
    /\ cmd = "nic"
    /\ mainPc = "classify"
    /\ verdict' = [valid |-> isValidMAC(nic.MACAddress), bootable |-> isBootable(nic)]
    /\ mainPc' = "done"
    /\ UNCHANGED <<inputVars, nodesVars, deadlineHit, spawned, pc, statusLocals, upErr, sem, mu, wg,
                   aggregates, calls, output, sysPaths, sysIdx, result,
                   discErr, discCalls>>

NextNic == ClassifyNic

SpecNic == InitNic /\ [][NextNic]_vars

(***************************************************************************)
(* discover: discoverCmd.RunE (cmd/discover.go:35-129) and UpdateNodes     *)
(* (internal/discover/discover.go:18-99).  The subnets are valid and the   *)
(* inventory has no nodes[] yet.                                           *)
(***************************************************************************)
StrReadKey ==
    <<"r","e","a","d"," ","s","s","h"," ","p","u","b","k","e","y">>

StrIpAllocate == <<"i","p"," ","a","l","l","o","c","a","t","e">>

StrNoSystemsDiscovered ==
    <<"n","o"," ","s","y","s","t","e","m","s"," ","d","i","s","c","o","v",
      "e","r","e","d">>

StrWriteFile == <<"w","r","i","t","e"," ","f","i","l","e">>

SystemsPath == <<"/","S","y","s","t","e","m","s">>

\* discover.go:56: context.WithTimeout(context.Background(), timeout) for
\* every timeout; with timeout 0 the deadline is the moment of creation
CtxOfUpdateNodes(t) == IF t > 0 THEN "timed" ELSE "expired"

\* the number of systems the BMC lists
SystemCount(tree) ==
    IF tree.systems.ok THEN Len(tree.systems.Members) ELSE 0

\* where the deadline of the context may pass during one
\* DiscoverAllBootableMACs call: before the GET of the systems (0), before
\* the NIC listing of the k-th system (k), or not at all (SystemCount + 1)
Cuts(tree, ctx) ==
    IF ctx = "expired" THEN { 0 }
    ELSE IF ctx = "timed" THEN 0..(SystemCount(tree) + 1)
    ELSE { SystemCount(tree) + 1 }

\* client.go:386-418 for the systems paths[i..], the deadline passing at cut
RECURSIVE SystemPass(_, _, _, _)
SystemPass(paths, i, tree, cut) ==
    IF i > Len(paths) THEN [systemMACs |-> << >>, gets |-> << >>]
    ELSE LET listing == IF i >= cut THEN DeadlineReply ELSE tree.nics[paths[i]]
             l    == listEthernetInterfaces(listing)
             macs == CollectMACs(l.nics)
             rest == SystemPass(paths, i + 1, tree, cut)
         IN  [systemMACs |->
                 (IF l.err.nil /\ Len(macs) > 0
                  THEN << [SystemPath |-> paths[i], MACs |-> macs] >>
                  ELSE << >>) \o rest.systemMACs,
              gets |-> NicCalls(paths[i], l.gets) \o rest.gets]

\* client.go:378-420 as one call: the error, the entries, the GETs made
DiscoverAllBootableMACs(tree, cut) ==
    LET r == listSystemPaths(IF cut = 0 THEN DeadlineReply ELSE tree.systems)
        p == SystemPass(r.paths, 1, tree, cut)
    IN  IF ~r.err.nil
        THEN [err |-> r.err, systemMACs |-> << >>,
              gets |-> << <<"GET", SystemsPath>> >>]
        ELSE [err |-> NilError, systemMACs |-> p.systemMACs,
              gets |-> << <<"GET", SystemsPath>> >> \o p.gets]

\* a request of the call met the deadline
DeadlineMet(tree, cut) == cut <= SystemCount(tree)

\* xname.BMCXnameToNodeN(b.Xname, n): the BMC's xname followed by n<n>
BMCXnameToNodeN(x, n) == x \o <<"n">> \o << <<"0","1","2","3","4","5">>[n + 1] >>

\* discover.go:69-96: the nodes of one BMC; idx is the index of
\* Head(sm) in systemMACs, base the number of addresses handed out so far
RECURSIVE NodesOf(_, _, _, _, _)
NodesOf(x, sm, idx, base, free) ==
    IF sm = << >> THEN [err |-> NilError, nodes |-> << >>]
    ELSE IF Len(Head(sm).MACs) = 0
         THEN NodesOf(x, Tail(sm), idx + 1, base, free)
    ELSE IF free = 0
         THEN [err |-> ErrorOf(StrIpAllocate), nodes |-> << >>]
    ELSE LET rest == NodesOf(x, Tail(sm), idx + 1, base + 1, free - 1)
         IN  [err |-> rest.err,
              nodes |-> << [Xname |-> BMCXnameToNodeN(x, idx),
                            MAC |-> Head(sm).MACs[1], IP |-> base + 1] >>
                        \o rest.nodes]

\* a line on stderr
WarnLine(h, kind, text) ==
    [stream |-> "stderr", host |-> h, kind |-> kind, text |-> text]

\* cmd/discover.go:78-86: the lines of the dry run
DryRunPlan ==
    << [stream |-> "stdout", host |-> Empty, kind |-> "dry-run", text |-> Empty] >>
    \o (IF discSSHPubKey # "none"
        THEN << [stream |-> "stdout", host |-> Empty, kind |-> "dry-run-keys",
                 text |-> Empty] >>
        ELSE << >>)

\* resource trees of a BMC: the systems cannot be read; two systems; two
\* systems, the NIC listing of the first fails; two systems, the first has
\* no valid MAC
GoodListing(mac) == [ok |-> TRUE, Members |-> << Nic(mac, Empty, << >>, "nil") >>]

Tree(sys, l1, l2) ==
    [systems |-> sys,
     nics |-> [p \in SysNames |-> IF p = <<"/","1">> THEN l1 ELSE l2]]

BothSystems == [ok |-> TRUE, Members |-> << <<"/","1">>, <<"/","2">> >>]

NodeTrees ==
    { Tree(FailedReply, FailedReply, FailedReply),
      Tree(BothSystems, GoodListing(MacUpperA), GoodListing(MacLowerB)),
      Tree(BothSystems, FailedReply, GoodListing(MacLowerB)),
      Tree(BothSystems,
           [ok |-> TRUE, Members |-> << Nic(StrNotAvailable, Empty, << >>, "nil") >>],
           GoodListing(MacLowerB)) }

\* the xnames of doc.BMCs: "a", "b", then "a" again
BmcXnames == [i \in 1..MaxHosts |-> IF i % 2 = 1 THEN <<"a">> ELSE <<"b">>]

\* DiscoverAllBootableMACs on every tree, for every place of the deadline
Discoveries ==
    [t \in NodeTrees, cut \in 0..(Len(BothSystems.Members) + 1) |->
        DiscoverAllBootableMACs(t, cut)]

\* the sizes of the node address pool: one address, or enough for all
PoolSizes == { 1, 2 * MaxHosts }

InitNodes ==
    /\ cmd = "discover-run"
    /\ gateway = [host |-> "terse", target |-> "terse"]
    /\ hosts \in { SubSeq(BmcXnames, 1, n) : n \in 1..MaxHosts }
    /\ targets = << >>
    /\ fwBatchSize = 0
    /\ fwDryRun = FALSE
    /\ fwExpectedVersion = Empty
    /\ fwForce = FALSE
    /\ bmc = None
    /\ nic = None
    /\ bmcs \in [1..Len(hosts) -> NodeTrees]
    /\ timeout \in { 0, 1 }
    /\ discDryRun \in BOOLEAN
    /\ discSSHPubKey \in { "none", "readable", "unreadable" }
    /\ freeIPs \in PoolSizes
    /\ InitCommon

\* cmd/discover.go:68-96: the dry run, or the key file is read
DiscoverStart ==
    /\ cmd = "discover-run"
    /\ mainPc = "start"
    /\ IF discDryRun
       THEN /\ output' = DryRunPlan
            /\ mainPc' = "done"
            /\ runErr' = runErr
       ELSE IF discSSHPubKey = "unreadable"
       THEN /\ runErr' = ErrorOf(StrReadKey)
            /\ mainPc' = "done"
            /\ output' = output
       ELSE /\ mainPc' = IF discSSHPubKey = "readable" THEN "keys" ELSE "nodes"
            /\ UNCHANGED <<output, runErr>>
    /\ UNCHANGED <<inputVars, discoverVars, deadlineHit, found, freeIPs, out,
                   written, spawned, pc, statusLocals, upErr, sem, mu, wg,
                   aggregates, calls>>

\* the replies to the PATCH of the authorized keys
PatchReplies == { [ok |-> TRUE], FailedReply }

\* cmd/discover.go:97-111: SetAuthorizedKeys on the next BMC
SetKeys ==
    /\ cmd = "discover-run"
    /\ mainPc = "keys"
    /\ LET u == spawned + 1
       IN  \E reply \in Under(CtxWithOptionalTimeout(timeout), FALSE, PatchReplies) :
             /\ calls' = [calls EXCEPT ![u] = Append(@, <<"PATCH">>)]
             /\ deadlineHit' = [deadlineHit EXCEPT ![u] = (reply = DeadlineReply)]
             /\ output' = IF reply.ok THEN output
                          ELSE Append(output, WarnLine(hosts[u], "warn-keys", reply.err))
    /\ spawned' = IF spawned + 1 = Len(hosts) THEN 0 ELSE spawned + 1
    /\ mainPc' = IF spawned + 1 = Len(hosts) THEN "nodes" ELSE "keys"
    /\ UNCHANGED <<inputVars, discoverVars, nodesVars, pc, statusLocals, upErr,
                   sem, mu, wg, aggregates>>

\* a slip: a BMC whose discovery fails ends the loop over the BMCs
AfterBmcStopOnError(derr, nerr, last) ==
    IF ~derr.nil \/ ~nerr.nil THEN "done"
    ELSE IF last THEN "write" ELSE "nodes"

\* discover.go:59-62 and 91-93: a discovery error goes on with the next BMC
\* (continue), an allocation error ends UpdateNodes (return nil, err)
AfterBmc(derr, nerr, last) ==
    IF ~nerr.nil THEN "done"
    ELSE IF last THEN "write" ELSE "nodes"

\* discover.go:51-97: one iteration of the loop over doc.BMCs
UpdateNodesBmc ==
    /\ cmd = "discover-run"
    /\ mainPc = "nodes"
    /\ LET u == spawned + 1
       IN  \E cut \in Cuts(bmcs[u], CtxOfUpdateNodes(timeout)) :
           \E d \in { Discoveries[bmcs[u], cut] } :
           \E n \in { NodesOf(hosts[u], d.systemMACs, 0, Len(out), freeIPs) } :
             LET last == spawned + 1 = Len(hosts)
             IN  /\ calls' = [calls EXCEPT ![u] = @ \o d.gets]
                 /\ deadlineHit' = [deadlineHit EXCEPT ![u] =
                                       @ \/ DeadlineMet(bmcs[u], cut)]
                 /\ found' = [found EXCEPT ![u] =
                                 [ok |-> d.err.nil, err |-> d.err,
                                  systemMACs |-> d.systemMACs, nodes |-> n.nodes]]
                 /\ out' = out \o n.nodes
                 /\ freeIPs' = freeIPs - Len(n.nodes)
                 /\ output' =
                      IF ~d.err.nil
                      THEN Append(output, WarnLine(hosts[u], "warn-discover", d.err.text))
                      ELSE IF Len(d.systemMACs) = 0
                      THEN Append(output, WarnLine(hosts[u], "warn-discover",
                                                   StrNoSystemsDiscovered))
                      ELSE output
                 /\ runErr' = n.err
                 /\ mainPc' = AfterBmc(d.err, n.err, last)
                 /\ spawned' = spawned + 1
    /\ UNCHANGED <<inputVars, discoverVars, written, pc, statusLocals, upErr,
                   sem, mu, wg, aggregates>>

\* cmd/discover.go:118-127: doc.Nodes = nodes and the file is written; the
\* content of the file after a failed write is left open
WriteNodes ==
    /\ cmd = "discover-run"
    /\ mainPc = "write"
    /\ \E ok \in BOOLEAN :
         IF ok
         THEN /\ written' = [ok |-> TRUE, nodes |-> out]
              /\ output' = Append(output, [stream |-> "stdout", host |-> Empty,
                                           kind |-> "updated", text |-> Empty])
              /\ runErr' = runErr
         ELSE /\ runErr' = ErrorOf(StrWriteFile)
              /\ UNCHANGED <<written, output>>
    /\ mainPc' = "done"
    /\ UNCHANGED <<inputVars, discoverVars, deadlineHit, found, freeIPs, out,
                   spawned, pc, statusLocals, upErr, sem, mu, wg, aggregates,
                   calls>>

NextNodes == DiscoverStart \/ SetKeys \/ UpdateNodesBmc \/ WriteNodes

SpecNodes == InitNodes /\ [][NextNodes]_vars

(***************************************************************************)
(* Specifications.                                                         *)
(***************************************************************************)
Init == InitStatus \/ InitFirmware

Next == NextStatus \/ NextFirmware

\* both commands, several hosts, the terse Gateway
Spec == Init /\ [][Next]_vars


\* the status query of one host with the full Gateway: one target with the
\* full inventory repertoire, or several targets with the terse one
InitInfer ==
    /\ cmd = "status"
    /\ hosts = << <<"a">> >>
    /\ \/ /\ gateway = [host |-> "brief", target |-> "full"]
          /\ targets = << <<"/","B">> >>
       \/ /\ gateway = [host |-> "full", target |-> "terse"]
          /\ targets \in { << <<"/","B">>, <<"/","N">> >> }
                       \cup { [i \in 1..MaxTargets |-> <<"/","B">>] }
    /\ fwBatchSize = 0
    /\ fwDryRun = FALSE
    /\ fwExpectedVersion = Empty
    /\ fwForce = FALSE
    /\ NoDiscovery
    /\ NoTimeout
    /\ InitCommon

SpecInfer == InitInfer /\ [][NextStatus]_vars


\* the status query against a Gateway whose replies are fixed per resource:
\* every interleaving of the host units and every batch size is explored
\* for the same replies
InitFixed ==
    /\ cmd = "status"
    /\ hosts \in SeqsOf(HostNames, 1, MaxHosts)
    /\ FirstHostIsA
    /\ targets \in { << <<"/","B">> >>, << <<"/","B">>, <<"/","N">> >> }
    /\ Len(hosts) * Len(targets) <= MaxRecords
    /\ fwBatchSize \in { 1, MaxBatch }
    /\ \E usOf \in [HostNames -> BriefUsReplies \ { FailedReply }],
          invOf \in [HostNames \X TargetNames -> TerseInvReplies] :
          gateway = [host |-> "fixed", target |-> "fixed",
                     us |-> usOf, inv |-> invOf]
    /\ fwDryRun = FALSE
    /\ fwExpectedVersion = Empty
    /\ fwForce = FALSE
    /\ NoDiscovery
    /\ NoTimeout
    /\ InitCommon

SpecFixed == InitFixed /\ [][NextStatus]_vars


\* the update-service documents without conditions
ServiceReplies ==
    { UsDoc(h, s, << >>) :
        h \in { Empty, StrOK, StrCritical },
        s \in { Empty, <<"U","p","d","a","t","i","n","g">> } }

\* the status query of one host whose update service answers without
\* conditions, the replies fixed per resource
InitService ==
    /\ cmd = "status"
    /\ hosts = << <<"a">> >>
    /\ targets = << <<"/","B">>, <<"/","N">> >>
    /\ fwBatchSize \in { 0, 1 }
    /\ \E r \in ServiceReplies, invOf \in [TargetNames -> TerseInvReplies] :
          gateway = [host |-> "fixed", target |-> "fixed",
                     us |-> [h \in HostNames |-> r],
                     inv |-> [k \in HostNames \X TargetNames |-> invOf[k[2]]]]
    /\ fwDryRun = FALSE
    /\ fwExpectedVersion = Empty
    /\ fwForce = FALSE
    /\ NoDiscovery
    /\ NoTimeout
    /\ InitCommon

SpecService == InitService /\ [][NextStatus]_vars

\* the three commands with and without a timeout, on one target
InitRunStatus ==
    /\ cmd = "status"
    /\ gateway = [host |-> "terse", target |-> "terse"]
    /\ hosts \in SeqsOf(HostNames, 1, MaxHosts)
    /\ FirstHostIsA
    /\ targets = << <<"/","B">> >>
    /\ fwBatchSize \in { 1, MaxBatch }
    /\ fwDryRun = FALSE
    /\ fwExpectedVersion = Empty
    /\ fwForce = FALSE
    /\ NoDiscovery
    /\ timeout \in { 0, 1 }
    /\ InitCommon

InitRunFirmware ==
    /\ cmd = "firmware"
    /\ gateway = [host |-> "terse", target |-> "terse"]
    /\ hosts \in SeqsOf(HostNames, 1, MaxHosts)
    /\ FirstHostIsA
    /\ targets = << <<"/","B">> >>
    /\ fwBatchSize \in { 1, MaxBatch }
    /\ fwDryRun \in BOOLEAN
    /\ fwExpectedVersion \in { Empty, VerV1 }
    /\ fwForce = FALSE
    /\ NoDiscovery
    /\ timeout \in { 0, 1 }
    /\ InitCommon

InitRun == InitRunStatus \/ InitRunFirmware \/ InitNodes

NextRun == NextStatus \/ NextFirmware \/ NextNodes

SpecRun == InitRun /\ [][NextRun]_vars

\* the host lists of the scheduling runs: one host more than MaxHosts, so
\* that units wait for a slot also with a batch size of 2
LiveHosts ==
    { [i \in 1..n |-> IF i % 2 = 1 THEN <<"a">> ELSE <<"b">>] :
        n \in 1..(MaxHosts + 1) }

\* the status query of up to MaxHosts hosts and the firmware update of up
\* to MaxHosts + 1 hosts with every batch size, on one target; the runs of
\* up to MaxHosts hosts with and without a timeout
InitLive ==
    /\ cmd \in { "status", "firmware" }
    /\ gateway = [host |-> "terse", target |-> "terse"]
    /\ hosts \in LiveHosts
    /\ cmd = "status" => Len(hosts) <= MaxHosts
    /\ targets = << <<"/","B">> >>
    /\ fwBatchSize \in 0..MaxBatch
    /\ fwDryRun \in (IF cmd = "firmware" THEN BOOLEAN ELSE { FALSE })
    /\ fwExpectedVersion = Empty
    /\ fwForce = FALSE
    /\ NoDiscovery
    /\ timeout \in (IF Len(hosts) <= MaxHosts THEN { 0, 1 } ELSE { 0 })
    /\ InitCommon

\* every goroutine that can take a step eventually takes one, and every
\* Gateway call returns: the Go scheduler and the HTTP client
SpecLive == InitLive /\ [][Next]_vars /\ WF_vars(Next)

(***************************************************************************)
(* Properties.                                                             *)
(***************************************************************************)
\* the indices of the records unit u has appended
RecordsOf(u) == { i \in 1..Len(hostSummaries) : summaryUnit[i] = u }

\* unit u has appended the record of the inventory it holds in inv[u]
Recorded(u) ==
    /\ cmd = "status"
    /\ tIdx[u] > 1
    /\ pc[u] \in {"inv", "finish", "done"}

\* the record unit u appended last
LastRecord(u) ==
    hostSummaries[CHOOSE i \in RecordsOf(u) : \A j \in RecordsOf(u) : j <= i]

\* unit u has computed the locals of the inventory it holds in inv[u]
Evaluated(u) ==
    /\ cmd = "status"
    /\ \/ pc[u] \in {"lock", "aggregate"}
       \/ Recorded(u)

\* the non-empty strings of a sequence of strings, in order
RECURSIVE NonEmpty(_)
NonEmpty(parts) ==
    IF parts = << >> THEN << >>
    ELSE (IF Head(parts) = Empty THEN << >> ELSE <<Head(parts)>>)
         \o NonEmpty(Tail(parts))

StatusRuleOf(u, r) ==
    /\ r.Error = Join(NonEmpty(<<perr[u], tgt[u].perrTarget>>), SepSemi)
    /\ r.Status = "error" <=> r.Error # Empty
    /\ r.Status = "in-progress" <=>
         (r.Error = Empty /\ (anyInProgress[u] \/ tgt[u].anyInProgressTarget))
    /\ r.Status = "idle" <=>
         (r.Error = Empty /\ ~anyInProgress[u] /\ ~tgt[u].anyInProgressTarget)

\* C1: every record's error text is the host-level and the target-level
\* error text joined by "; " (empty parts omitted); its status is "error"
\* iff that text is non-empty, else "in-progress" iff one of the two
\* in-progress flags is set, else "idle".  So a host-level error makes every
\* record of the host's unit "error", and none of them is counted as
\* in progress.
C1_StatusRule ==
    \A u \in Units :
        /\ Recorded(u) => StatusRuleOf(u, LastRecord(u))
        /\ perr[u] # Empty =>
             /\ \A i \in RecordsOf(u) : hostSummaries[i].Status = "error"
             /\ inProgress <= Len(hostSummaries) - Cardinality(RecordsOf(u))

C1_Witness ==
    \E u \in Units :
        /\ pc[u] = "done"
        /\ Len(targets) = 2
        /\ perr[u] # Empty
        /\ tgt[u].perrTarget = Empty
        /\ inv[u].ok
        /\ Cardinality(RecordsOf(u)) = 2

\* the command has passed the join barrier
PastBarrier == cmd = "status" /\ mainPc \in {"output", "done"}

\* the number of positions of a list that hold x
Occurrences(list, x) == Cardinality({ i \in 1..Len(list) : list[i] = x })

\* the records of host h and target t
RecordsWithKey(h, t) ==
    { i \in 1..Len(hostSummaries) :
        hostSummaries[i].Host = h /\ hostSummaries[i].Target = t }

NoRepeats(list) == \A i, j \in 1..Len(list) : list[i] = list[j] => i = j

\* C2 as claimed: past the barrier every unit has finished, there is one
\* record per (host, target) pair and no two records share a (host, target)
\* key, for any host list and any target list.
C2_UniqueKeysAnyList ==
    PastBarrier =>
        /\ \A u \in Units : pc[u] = "done"
        /\ Len(hostSummaries) = Len(hosts) * Len(targets)
        /\ \A i, j \in 1..Len(hostSummaries) :
             (/\ hostSummaries[i].Host = hostSummaries[j].Host
              /\ hostSummaries[i].Target = hostSummaries[j].Target) => i = j

\* C2 (amended): past the barrier every unit has finished and the record
\* list holds exactly one record for each (position in the host list,
\* position in the target list); so the records of a (host, target) key are
\* as many as the host occurs in the host list times the target occurs in
\* the target list, and no two records share a key when neither list
\* repeats an entry.
C2_OneRecordPerPosition ==
    PastBarrier =>
        /\ \A u \in Units : pc[u] = "done"
        /\ Len(hostSummaries) = Len(hosts) * Len(targets)
        /\ \A u \in Units : \A t \in TargetNames :
             Cardinality({ i \in RecordsOf(u) :
                             /\ hostSummaries[i].Host = hosts[u]
                             /\ hostSummaries[i].Target = t })
               = Occurrences(targets, t)
        /\ \A h \in HostNames, t \in TargetNames :
             Cardinality(RecordsWithKey(h, t))
               = Occurrences(hosts, h) * Occurrences(targets, t)
        /\ (NoRepeats(hosts) /\ NoRepeats(targets)) =>
             \A h \in HostNames, t \in TargetNames :
                 Cardinality(RecordsWithKey(h, t)) <= 1

C2_Witness ==
    /\ PastBarrier
    /\ Len(hosts) = 2 /\ Len(targets) = 2
    /\ NoRepeats(hosts) /\ NoRepeats(targets)
    /\ fwBatchSize = 1
    /\ Len(hostSummaries) = 4

\* the units that hold a slot of the semaphore
Holders ==
    { u \in Units :
        \/ cmd = "status"
           /\ pc[u] \in {"us", "tasks", "inv", "lock", "aggregate", "finish"}
        \/ cmd = "firmware" /\ ~Serial
           /\ pc[u] \in {"update", "lock", "print", "finish"} }

\* the hosts the serial firmware update is working on
SerialBusy == { u \in Units : cmd = "firmware" /\ Serial /\ pc[u] = "print" }

\* the inventory GETs of a call log
InventoryCalls(log) == SelectSeq(log, LAMBDA c : c[1] = "Inventory")

WithStatus(st) == { i \in 1..Len(hostSummaries) : hostSummaries[i].Status = st }

WithVersion(v) ==
    { i \in 1..Len(hostSummaries) : hostSummaries[i].ObservedVersion = v }

KeyOf(r) == ErrorKey(r.Host, r.Target)

ErrorsWithKey(k) ==
    { i \in 1..Len(hostSummaries) :
        hostSummaries[i].Error # Empty /\ KeyOf(hostSummaries[i]) = k }

AllKeys == { KeyOf(hostSummaries[i]) : i \in 1..Len(hostSummaries) }

\* the counts agree with the record list
CountsAgree ==
    /\ inProgress = Cardinality(WithStatus("in-progress"))
    /\ DOMAIN versionCounts
         = { hostSummaries[i].ObservedVersion : i \in 1..Len(hostSummaries) }
    /\ \A v \in DOMAIN versionCounts :
         versionCounts[v] = Cardinality(WithVersion(v))

\* C4 as claimed: past the barrier the counts agree with the record list and
\* the error map has an entry for a record's key exactly when the record has
\* a non-empty error text, and the entry is that record's error text.
C4_ErrorMapPerRecord ==
    PastBarrier =>
        /\ CountsAgree
        /\ \A i \in 1..Len(hostSummaries) :
             LET r == hostSummaries[i]
             IN  IF r.Error # Empty
                 THEN KeyOf(r) \in DOMAIN errorsList /\ errorsList[KeyOf(r)] = r.Error
                 ELSE KeyOf(r) \notin DOMAIN errorsList

\* C4 (amended): past the barrier, under every interleaving, the in-progress
\* count is the number of "in-progress" records, every version count is the
\* number of records with that version, and the error map has an entry for
\* a key iff some record with that key has a non-empty error text; the entry
\* is the error text of the last such record of the record list (the
\* record's own error text when no other record shares its key).
C4_AggregatesAgree ==
    PastBarrier =>
        /\ CountsAgree
        /\ DOMAIN errorsList = { k \in AllKeys : ErrorsWithKey(k) # {} }
        /\ \A k \in DOMAIN errorsList :
             LET last == CHOOSE i \in ErrorsWithKey(k) :
                             \A j \in ErrorsWithKey(k) : j <= i
             IN  errorsList[k] = hostSummaries[last].Error
        /\ \A i \in 1..Len(hostSummaries) :
             LET r == hostSummaries[i]
             IN  Cardinality({ j \in 1..Len(hostSummaries) :
                                 KeyOf(hostSummaries[j]) = KeyOf(r) }) = 1
                 => IF r.Error # Empty
                    THEN KeyOf(r) \in DOMAIN errorsList
                         /\ errorsList[KeyOf(r)] = r.Error
                    ELSE KeyOf(r) \notin DOMAIN errorsList

C4_Witness ==
    /\ PastBarrier
    /\ fwBatchSize = 2
    /\ NoRepeats(hosts) /\ Len(hosts) = 2 /\ Len(targets) = 2
    /\ inProgress = 1
    /\ Cardinality(DOMAIN errorsList) = 2
    /\ \E v \in DOMAIN versionCounts : versionCounts[v] = 2
    /\ summaryUnit[1] # summaryUnit[2]

\* the subsequence of the record list appended by unit u
RECURSIVE OwnRecords(_, _)
OwnRecords(u, n) ==
    IF n = 0 THEN << >>
    ELSE IF summaryUnit[n] = u
         THEN Append(OwnRecords(u, n - 1), hostSummaries[n])
         ELSE OwnRecords(u, n - 1)

IsPrefix(p, s) == Len(p) <= Len(s) /\ p = SubSeq(s, 1, Len(p))

\* the inventory GETs of the whole target list, in order
AllInventoryCalls == [i \in 1..Len(targets) |-> <<"Inventory", targets[i]>>]

\* C5: a unit's Gateway calls are the update-service GET, then the task GET
\* if it is made, then the inventory GETs in target-list order, one per
\* target; and the records of the unit are in the record list in
\* target-list order, whatever the other units do.
C5_FixedOrder ==
    cmd = "status" =>
        \A u \in Units :
            /\ \/ IsPrefix(calls[u], <<<<"UpdateService">>, <<"Tasks">>>>
                                       \o AllInventoryCalls)
               \/ IsPrefix(calls[u], <<<<"UpdateService">>>> \o AllInventoryCalls)
            /\ pc[u] = "done" => Len(InventoryCalls(calls[u])) = Len(targets)
            /\ LET own == OwnRecords(u, Len(hostSummaries))
               IN  /\ Len(own) <= Len(targets)
                   /\ \A i \in 1..Len(own) :
                        own[i].Host = hosts[u] /\ own[i].Target = targets[i]

C5_Witness ==
    /\ cmd = "status"
    /\ Len(hosts) = 2 /\ NoRepeats(targets) /\ Len(targets) = 2
    /\ \A u \in Units : pc[u] = "done"
    /\ Len(calls[1]) = 4 /\ Len(calls[2]) = 3
    /\ summaryUnit = <<2, 1, 1, 2>>

\* the unit holds the reply (a snapshot or an error), not the placeholder
Present(x) == "none" \notin DOMAIN x

TasksFetched(u) == \E i \in 1..Len(calls[u]) : calls[u][i] = <<"Tasks">>

\* the update service was fetched and reports health OK and state updating
ReportsUpdating(s) ==
    s.ok /\ EqualFold(s.Health, StrOK) /\ EqualFold(s.State, StrUpdating)

CondTexts(conds) == [i \in 1..Len(conds) |-> CondText(conds[i])]

HealthPresentNotOk(s) == s.Health # Empty /\ ~EqualFold(s.Health, StrOK)

\* C7 as claimed: the host-level error text is built from the update-service
\* conditions only if the fetch succeeded and the health is present and not
\* "OK" (any case); it is then the texts of all conditions joined by "; ",
\* and the state does not set the in-progress flag.  With the health absent
\* or "OK" the snapshot gives no error text.
C7_HostErrorOnlyForPresentNonOkHealth ==
    \A u \in Units :
        (cmd = "status" /\ Present(us[u])) =>
            /\ ~(us[u].ok /\ HealthPresentNotOk(us[u])) => perr[u] = Empty
            /\ (us[u].ok /\ HealthPresentNotOk(us[u])) =>
                 /\ perr[u] = Join(CondTexts(us[u].Conditions), SepSemi)
                 /\ pc[u] = "tasks"

\* the outcome of a failed inventory fetch
FailedFetchLocals(u) ==
    /\ tgt[u].perrTarget = inv[u].err
    /\ tgt[u].perrTarget # Empty
    /\ ~tgt[u].anyInProgressTarget
    /\ tgt[u].verTarget = StrUnknown
    /\ tgt[u].status = "error"
    /\ tgt[u].combinedErr = Join(NonEmpty(<<perr[u], inv[u].err>>), SepSemi)

\* C8: a failed inventory fetch gives the target the fetch error as its
\* error text, no in-progress flag, the version "(unknown)" and the status
\* "error"; the unit goes on to the remaining targets, and the command ends
\* with one record per target, the failed one included.
C8_FetchFailureIsARecord ==
    /\ \A u \in Units :
         /\ (Evaluated(u) /\ ~inv[u].ok) => FailedFetchLocals(u)
         /\ (Recorded(u) /\ ~inv[u].ok) =>
              /\ LastRecord(u).Status = "error"
              /\ LastRecord(u).ObservedVersion = StrUnknown
              /\ LastRecord(u).Error = tgt[u].combinedErr
         /\ (cmd = "status" /\ pc[u] = "done") =>
              /\ Cardinality(RecordsOf(u)) = Len(targets)
              /\ InventoryCalls(calls[u]) = AllInventoryCalls
    /\ (cmd = "status" /\ mainPc = "done") =>
         /\ Len(output) = 1
         /\ output[1].records = hostSummaries
         /\ Len(hostSummaries) = Len(hosts) * Len(targets)

C8_Witness ==
    /\ cmd = "status"
    /\ mainPc = "done"
    /\ Len(hostSummaries) = 2
    /\ hostSummaries[1].Status = "error"
    /\ hostSummaries[1].ObservedVersion = StrUnknown
    /\ hostSummaries[1].Error = ErrEOF
    /\ hostSummaries[2].Status = "idle"

\* the condition is Critical or its message holds "failed" or "error"
ErrorClass(c) ==
    \/ c.Severity = StrCritical
    \/ Contains(ToLower(c.Message), StrFailed)
    \/ Contains(ToLower(c.Message), StrError)

\* C9 as claimed: a fetched target whose health is present and not "OK" has
\* a non-empty target-level error text, "health: <Health>" when it has no
\* conditions, so it is "error"; a target whose health is absent or "OK"
\* gets no error text from its health.
C9_NonOkHealthIsError ==
    \A u \in Units :
        (Evaluated(u) /\ inv[u].ok) =>
            IF HealthPresentNotOk(inv[u])
            THEN /\ tgt[u].perrTarget # Empty
                 /\ tgt[u].status = "error"
                 /\ Len(inv[u].Conditions) = 0 =>
                      tgt[u].perrTarget = StrHealth \o inv[u].Health
            ELSE (\A i \in 1..Len(inv[u].Conditions) :
                      ~ErrorClass(inv[u].Conditions[i]))
                 => tgt[u].perrTarget = Empty

\* s ends with suffix
EndsWith(s, suffix) ==
    Len(suffix) <= Len(s)
    /\ SubSeq(s, Len(s) - Len(suffix) + 1, Len(s)) = suffix

\* C10: for a fetched target, a condition that is Critical or whose message
\* holds "failed" or "error" (any case) is appended to the target-level
\* error text and never sets the target-level in-progress flag; another
\* condition sets the flag when its message holds a progress keyword; and a
\* state that is present and neither "enabled" nor "ok" (any case) sets it.
C10_ConditionRules ==
    \A u \in Units :
        (Evaluated(u) /\ inv[u].ok) =>
            LET conds  == inv[u].Conditions
                errIdx == { i \in 1..Len(conds) : ErrorClass(conds[i]) }
            IN  /\ tgt[u].anyInProgressTarget <=>
                     \/ /\ inv[u].State # Empty
                        /\ ~EqualFold(inv[u].State, StrEnabled)
                        /\ ~EqualFold(inv[u].State, StrOk)
                     \/ \E i \in (1..Len(conds)) \ errIdx :
                            IsProgressMessage(conds[i])
                /\ \A i \in errIdx :
                     Contains(tgt[u].perrTarget, CondText(conds[i]))
                /\ errIdx # {} =>
                     EndsWith(tgt[u].perrTarget,
                              CondText(conds[CHOOSE i \in errIdx :
                                                \A j \in errIdx : j <= i]))
                /\ (errIdx = {} /\ ~HealthPresentNotOk(inv[u])) =>
                     tgt[u].perrTarget = Empty

C10_Witness ==
    \E u \in Units :
        /\ Evaluated(u)
        /\ inv[u].ok
        /\ inv[u].Health = Empty
        /\ inv[u].State = Empty
        /\ Len(inv[u].Conditions) = 1
        /\ IsProgressMessage(inv[u].Conditions[1])
        /\ Contains(ToLower(inv[u].Conditions[1].Message), StrError)
        /\ ~tgt[u].anyInProgressTarget
        /\ tgt[u].perrTarget = inv[u].Conditions[1].Message

\* the record the replies of a fixed Gateway determine for host h and
\* target t: the update service, the task list if it is asked for, and the
\* inventory of the target, evaluated in the order of the unit
ExpectedRecord(h, t) ==
    LET ev   == EvalUpdateService(GetUpdateServiceStatus(gateway.us[h]))
        flag == IF ev.anyInProgress THEN TRUE
                ELSE EvalTasks(GetActiveUpdateTasks(CHOOSE r \in TaskReplies : TRUE))
    IN  Summary(h, t, TargetLocals(ev.perr, flag,
                                   GetFirmwareInventory(gateway.inv[<<h, t>>])))

\* the records of unit u, in target-list order
ExpectedOf(u) == [j \in 1..Len(targets) |-> ExpectedRecord(hosts[u], targets[j])]

\* the (unit, target position) pairs of the run
Pairs == Units \X (1..Len(targets))

ExpectedAt(p) == ExpectedRecord(hosts[p[1]], targets[p[2]])

\* C11: with the Gateway's replies fixed, past the barrier the records of
\* every host unit, the version counts, the error map and the in-progress
\* count are the ones the replies determine, under every interleaving of
\* the units and for every batch size; records of different hosts may be
\* interleaved in any order.
C11_InterleavingIndependent ==
    (PastBarrier /\ gateway.host = "fixed") =>
        /\ Len(hostSummaries) = Len(hosts) * Len(targets)
        /\ \A u \in Units : OwnRecords(u, Len(hostSummaries)) = ExpectedOf(u)
        /\ inProgress
             = Cardinality({ p \in Pairs : ExpectedAt(p).Status = "in-progress" })
        /\ DOMAIN versionCounts = { ExpectedAt(p).ObservedVersion : p \in Pairs }
        /\ \A v \in DOMAIN versionCounts :
             versionCounts[v]
               = Cardinality({ p \in Pairs : ExpectedAt(p).ObservedVersion = v })
        /\ DOMAIN errorsList
             = { KeyOf(ExpectedAt(p)) : p \in { q \in Pairs : ExpectedAt(q).Error # Empty } }
        /\ \A p \in Pairs :
             ExpectedAt(p).Error # Empty =>
                 errorsList[KeyOf(ExpectedAt(p))] = ExpectedAt(p).Error
        /\ mainPc = "done" =>
             output = <<[records |-> hostSummaries, inProgress |-> inProgress,
                         versions |-> versionCounts, errors |-> errorsList]>>

C11_Witness ==
    /\ PastBarrier
    /\ gateway.host = "fixed"
    /\ fwBatchSize = MaxBatch
    /\ Len(hosts) = 2 /\ hosts[1] # hosts[2] /\ Len(targets) = 2
    /\ summaryUnit = <<2, 1, 2, 1>>
    /\ inProgress = 2
    /\ Cardinality(DOMAIN errorsList) = 2

\* the discovery pass has returned
Discovered == cmd = "discover" /\ mainPc = "done"

\* the NIC listing of system path p succeeds: the collection and every member
ListingOk(p) ==
    /\ bmc.nics[p].ok
    /\ \A i \in 1..Len(bmc.nics[p].Members) : bmc.nics[p].Members[i].ok

HasValidMAC(n) == isValidMAC(n.MACAddress)

ValidBootable(n) == isValidMAC(n.MACAddress) /\ isBootable(n)

\* the MACs wanted for a list of NICs: those of the valid bootable NICs,
\* else the first valid one, lower-cased
WantedMACs(nics) ==
    LET b == SelectSeq(nics, ValidBootable)
        v == SelectSeq(nics, HasValidMAC)
    IN  IF b # << >> THEN [i \in 1..Len(b) |-> ToLower(b[i].MACAddress)]
        ELSE IF v # << >> THEN <<ToLower(v[1].MACAddress)>>
        ELSE << >>

\* the entries of system path p
EntriesOf(p) == { i \in 1..Len(result) : result[i].SystemPath = p }

\* the string has no upper-case letter
IsLowerCase(s) == ToLower(s) = s

\* C12: when the pass has returned without error, every listed system whose
\* NIC listing succeeds has an entry iff one of its NICs has a valid MAC; the
\* entry holds the lower-cased MACs of its valid bootable NICs in
\* enumeration order, or, when there is none, the lower-cased first valid
\* MAC alone.  Every entry holds a non-empty list of valid lower-case MACs.
C12_BootableElseFirstValid ==
    (Discovered /\ discErr.nil) =>
        /\ \A k \in 1..Len(sysPaths) :
             LET p == sysPaths[k]
             IN  ListingOk(p) =>
                   LET want == WantedMACs(bmc.nics[p].Members)
                   IN  /\ (EntriesOf(p) # {})
                            <=> (\E i \in 1..Len(bmc.nics[p].Members) :
                                    HasValidMAC(bmc.nics[p].Members[i]))
                       /\ \A i \in EntriesOf(p) : result[i].MACs = want
        /\ \A i \in 1..Len(result) :
             /\ Len(result[i].MACs) > 0
             /\ \A j \in 1..Len(result[i].MACs) :
                  /\ isValidMAC(result[i].MACs[j])
                  /\ IsLowerCase(result[i].MACs[j])

C12_Witness ==
    /\ Discovered
    /\ discErr.nil
    /\ sysPaths = << <<"/","1">>, <<"/","2">> >>
    /\ Len(result) = 2
    /\ Len(bmc.nics[<<"/","1">>].Members) = 2
    /\ Len(result[1].MACs) = 2
    /\ result[1].MACs[1] # result[1].MACs[2]
    /\ ~isBootable(bmc.nics[<<"/","2">>].Members[1])
    /\ result[2].MACs = <<ToLower(MacLowerB)>>

\* the systems collection cannot be fetched or is empty
NoSystems == ~bmc.systems.ok \/ Len(bmc.systems.Members) = 0

\* the GET of the Systems collection
SystemsCall == <<"GET", <<"/","S","y","s","t","e","m","s">> >>

\* the member GETs made for system path p: every member up to and including
\* the first that fails
MemberGets(p) ==
    IF ~bmc.nics[p].ok THEN 0
    ELSE IF \E i \in 1..Len(bmc.nics[p].Members) : ~bmc.nics[p].Members[i].ok
         THEN CHOOSE i \in 1..Len(bmc.nics[p].Members) :
                  /\ ~bmc.nics[p].Members[i].ok
                  /\ \A j \in 1..(i - 1) : bmc.nics[p].Members[j].ok
    ELSE Len(bmc.nics[p].Members)

\* the GETs of the first n systems of the collection, in collection order
RECURSIVE SystemCalls(_)
SystemCalls(n) ==
    IF n = 0 THEN << >>
    ELSE LET p == bmc.systems.Members[n]
         IN  SystemCalls(n - 1)
             \o << <<"GET", p, "EthernetInterfaces">> >>
             \o [i \in 1..MemberGets(p) |-> <<"GET", p, i>>]

\* the entries of the first n systems of the collection, in collection order
RECURSIVE SystemEntries(_)
SystemEntries(n) ==
    IF n = 0 THEN << >>
    ELSE LET p == bmc.systems.Members[n]
             want == IF ListingOk(p) THEN WantedMACs(bmc.nics[p].Members)
                     ELSE << >>
         IN  SystemEntries(n - 1)
             \o (IF want # << >> THEN <<[SystemPath |-> p, MACs |-> want]>>
                 ELSE << >>)

\* C13: the pass returns an error and no entry, after the one GET of the
\* collection, iff the systems collection cannot be fetched or is empty.
\* Otherwise every system is gone through in collection order: one GET of
\* its NIC collection and one of each NIC up to the first that fails; a
\* system whose listing fails gets no entry, built from no part of its NICs,
\* and the other systems get theirs.
C13_NoSystemsFatalListingSkipped ==
    /\ Discovered =>
         /\ ~discErr.nil <=> NoSystems
         /\ NoSystems =>
              /\ result = << >>
              /\ discCalls = <<SystemsCall>>
              /\ discErr.text = (IF bmc.systems.ok THEN ErrNoSystems
                                 ELSE bmc.systems.err)
         /\ ~NoSystems =>
              /\ result = SystemEntries(Len(bmc.systems.Members))
              /\ discCalls = <<SystemsCall>> \o SystemCalls(Len(bmc.systems.Members))
              /\ \A k \in 1..Len(bmc.systems.Members) :
                   ~ListingOk(bmc.systems.Members[k])
                       => EntriesOf(bmc.systems.Members[k]) = {}
    /\ (cmd = "discover" /\ mainPc = "system") =>
         /\ result = SystemEntries(sysIdx - 1)
         /\ discCalls = <<SystemsCall>> \o SystemCalls(sysIdx - 1)

C13_Witness ==
    /\ Discovered
    /\ discErr.nil
    /\ sysPaths = << <<"/","1">>, <<"/","2">> >>
    /\ bmc.nics[<<"/","1">>].ok
    /\ Len(bmc.nics[<<"/","1">>].Members) = 2
    /\ bmc.nics[<<"/","1">>].Members[1].ok
    /\ HasValidMAC(bmc.nics[<<"/","1">>].Members[1])
    /\ ~bmc.nics[<<"/","1">>].Members[2].ok
    /\ Len(result) = 1
    /\ result[1].SystemPath = <<"/","2">>

\* C14 as claimed: no two entries of the returned list carry the same
\* SystemPath, whatever member list the systems collection returns.
C14_UniquePerSystemPath ==
    Discovered =>
        \A i, j \in 1..Len(result) :
            result[i].SystemPath = result[j].SystemPath => i = j

\* the NIC has been classified
Classified == cmd = "nic" /\ mainPc = "done"

\* six groups of two hexadecimal characters, one separator, ":" or "-",
\* between consecutive groups
WellFormedMAC(mac) ==
    /\ Len(mac) = 17
    /\ \E sep \in {":", "-"} :
         \A i \in 1..17 : IF i % 3 = 0 THEN mac[i] = sep ELSE IsHexChar(mac[i])

\* C15 as claimed: isValidMAC(mac) is true iff mac is six groups of exactly
\* two hexadecimal characters separated uniformly by ":" or by "-"; the
\* empty string and "Not Available" in any case are invalid.
C15_ValidIffWellFormed ==
    Classified =>
        /\ verdict.valid <=> WellFormedMAC(nic.MACAddress)
        /\ (nic.MACAddress = Empty \/ EqualFold(nic.MACAddress, StrNotAvailable))
             => ~verdict.valid

\* rule 1: the UEFI device path holds "pxe", "ipv4", "ipv6" or "mac(", in
\* any case
UefiRule(n) ==
    \E w \in { StrPxe, StrIpv4, StrIpv6, StrMacParen } :
        Contains(ToLower(n.UefiDevicePath), w)

\* rule 2: some IPv4 entry has the address origin "dhcp", in any case
DhcpRule(n) ==
    \E i \in 1..Len(n.IPv4Addresses) :
        ToLower(n.IPv4Addresses[i].Origin) = StrDhcp

\* rule 3: the MAC is non-empty and InterfaceEnabled is absent or true
MacRule(n) == n.MACAddress # Empty /\ n.InterfaceEnabled # "false"

\* C16: isBootable(nic) is the disjunction of the UEFI rule, the DHCP rule
\* and the MAC rule; it is false when none holds, as for the NIC with every
\* field empty.
C16_BootableIsDisjunction ==
    Classified =>
        /\ verdict.bootable <=> (UefiRule(nic) \/ DhcpRule(nic) \/ MacRule(nic))
        /\ nic = Nic(Empty, Empty, << >>, "nil") => ~verdict.bootable

C16_Witness ==
    /\ Classified
    /\ verdict.bootable
    /\ DhcpRule(nic)
    /\ ~UefiRule(nic)
    /\ ~MacRule(nic)

\* C17 as claimed: isBootable is false for a NIC whose InterfaceEnabled is
\* explicitly false, even with a MAC present.
C17_DisabledNeverBootable ==
    (Classified /\ nic.InterfaceEnabled = "false") => ~verdict.bootable

\* C17 (amended): for a NIC whose InterfaceEnabled is explicitly false,
\* isBootable is true iff the UEFI rule or the DHCP rule holds; so it is
\* false, even with a MAC present, when the device path holds no boot
\* keyword and no IPv4 entry has the origin "dhcp".
C17_DisabledBootableOnlyByOtherRules ==
    (Classified /\ nic.InterfaceEnabled = "false") =>
        (verdict.bootable <=> (UefiRule(nic) \/ DhcpRule(nic)))

C17_Witness ==
    /\ Classified
    /\ nic.InterfaceEnabled = "false"
    /\ isValidMAC(nic.MACAddress)
    /\ ~UefiRule(nic) /\ ~DhcpRule(nic)
    /\ ~verdict.bootable

\* SimpleUpdate has returned to unit u, with the replies laid down in gateway
Returned(u) ==
    /\ cmd = "firmware"
    /\ gateway.target = "given"
    /\ u \in Units
    /\ pc[u] \in {"print", "done"}

\* every target's pre-flight GET succeeds with the expected version
EveryTargetAtExpected ==
    \A i \in 1..Len(targets) :
        gateway.pre[i].ok /\ gateway.pre[i].Version = fwExpectedVersion

\* the error is the skip outcome
IsSkipOutcome(err) == ~err.nil /\ IsPrefix(StrSkipPrefix, err.text)

\* the positions of the POST in the calls of unit u
PostCalls(u) == { i \in 1..Len(calls[u]) : calls[u][i] = <<"POST">> }

\* the lines "<target>: <version>" of all targets, in target-list order
ObservedVersions ==
    [i \in 1..Len(targets) |-> targets[i] \o <<":"," ">> \o gateway.pre[i].Version]

\* C18: with an expected version, force false, at least one target and
\* every pre-flight GET answering the expected version, SimpleUpdate returns
\* the skip outcome, which lists the observed version of every target, and
\* has made the pre-flight GETs only: no POST and no post-check GET.  The
\* command reports the host as skipped.
C18_SkipWhenAllAtExpected ==
    (/\ Returned(1)
     /\ fwExpectedVersion # Empty /\ ~fwForce /\ Len(targets) >= 1
     /\ EveryTargetAtExpected) =>
        /\ upErr[1] = ErrorOf(StrSkipPrefix \o fwExpectedVersion \o NL
                              \o Join(ObservedVersions, NL))
        /\ calls[1] = [i \in 1..Len(targets) |-> <<"GET", targets[i]>>]
        /\ PostCalls(1) = {}
        /\ pc[1] = "done" =>
             /\ Len(output) = 1
             /\ output[1].kind = "skipped"
             /\ output[1].stream = "stdout"

C18_Witness ==
    /\ Returned(1)
    /\ pc[1] = "done"
    /\ fwExpectedVersion = VerV1 /\ ~fwForce
    /\ Len(targets) = 2
    /\ EveryTargetAtExpected
    /\ gateway.post.ok
    /\ output[1].kind = "skipped"

\* C19: SimpleUpdate returns the skip outcome iff an expected version is
\* given, force is false and every target's pre-flight GET succeeds with the
\* expected version.  In every other case it issues the POST exactly once:
\* as its first request when force is true or no version is expected, and
\* after the pre-flight GETs of all targets when one of them fails or
\* answers another version.
C19_PostUnlessAllAtExpected ==
    Returned(1) =>
        LET skip == fwExpectedVersion # Empty /\ ~fwForce /\ EveryTargetAtExpected
        IN  /\ IsSkipOutcome(upErr[1]) <=> skip
            /\ skip <=> PostCalls(1) = {}
            /\ Cardinality(PostCalls(1)) <= 1
            /\ (fwForce \/ fwExpectedVersion = Empty) => calls[1][1] = <<"POST">>
            /\ (~skip /\ ~fwForce /\ fwExpectedVersion # Empty) =>
                 /\ SubSeq(calls[1], 1, Len(targets))
                      = [i \in 1..Len(targets) |-> <<"GET", targets[i]>>]
                 /\ calls[1][Len(targets) + 1] = <<"POST">>

C19_Witness ==
    /\ Returned(1)
    /\ fwExpectedVersion = VerV1 /\ ~fwForce
    /\ Len(targets) = 2
    /\ ~gateway.pre[1].ok
    /\ gateway.pre[2].ok /\ gateway.pre[2].Version = VerV1
    /\ calls[1][3] = <<"POST">>
    /\ upErr[1].nil

\* C20 as claimed: with an expected version and force false, SimpleUpdate
\* skips the update if any target already has that version.
C20_SkipIfAnyAtExpected ==
    (/\ Returned(1)
     /\ fwExpectedVersion # Empty /\ ~fwForce
     /\ \E i \in 1..Len(targets) :
            gateway.pre[i].ok /\ gateway.pre[i].Version = fwExpectedVersion) =>
        /\ IsSkipOutcome(upErr[1])
        /\ PostCalls(1) = {}

\* SimpleUpdate went past the pre-flight check of the laid-down replies
NotSkipped ==
    ~(fwExpectedVersion # Empty /\ ~fwForce /\ EveryTargetAtExpected)

\* the requests SimpleUpdate makes before the POST
PreflightGets ==
    IF fwExpectedVersion # Empty /\ ~fwForce
    THEN [i \in 1..Len(targets) |-> <<"GET", targets[i]>>]
    ELSE << >>

\* C21 as claimed: when the trigger POST fails, SimpleUpdate returns that
\* error, makes no post-check GET and issues the POST once; the firmware
\* command reports the host as failed (a warning on stderr), once.
C21_PostFailureReportedAsFailed ==
    (Returned(1) /\ NotSkipped /\ ~gateway.post.ok) =>
        /\ upErr[1] = ErrorOf(gateway.post.err)
        /\ calls[1] = Append(PreflightGets, <<"POST">>)
        /\ pc[1] = "done" =>
             /\ Len(output) = 1
             /\ output[1].kind = "failed"
             /\ output[1].stream = "stderr"

\* the post-check GET of target i succeeded with a Warning or Critical
\* condition
HasReportedCondition(i) ==
    /\ gateway.chk[i].ok
    /\ \E k \in 1..Len(gateway.chk[i].Conditions) :
           gateway.chk[i].Conditions[k].Severity \in { StrWarning, StrCritical }

\* the error is the "completed with warnings/errors" outcome
IsCompletedWithErrors(err) == ~err.nil /\ IsPrefix(StrCompletedPrefix, err.text)

\* C22: after a successful trigger POST SimpleUpdate re-fetches every
\* target in list order, after the POST; it returns the "completed with
\* warnings/errors" error iff a successfully re-fetched target has a
\* Warning or Critical condition, and success otherwise (a failed re-fetch
\* is ignored); the POST was issued exactly once.
C22_PostCheckAdvisory ==
    (Returned(1) /\ NotSkipped /\ gateway.post.ok) =>
        /\ calls[1] = Append(PreflightGets, <<"POST">>)
                        \o [i \in 1..Len(targets) |-> <<"GET", targets[i]>>]
        /\ Cardinality(PostCalls(1)) = 1
        /\ IsCompletedWithErrors(upErr[1])
             <=> \E i \in 1..Len(targets) : HasReportedCondition(i)
        /\ upErr[1].nil
             <=> ~\E i \in 1..Len(targets) : HasReportedCondition(i)

C22_Witness ==
    /\ Returned(1)
    /\ gateway.post.ok
    /\ Len(targets) = 2
    /\ ~gateway.chk[1].ok
    /\ HasReportedCondition(2)
    /\ IsCompletedWithErrors(upErr[1])
    /\ Len(calls[1]) = 3

\* C23 as claimed: with timeout 0 no Gateway call made by discovery, by the
\* status query or by the firmware update is cancelled by a deadline.
C23_ZeroTimeoutNoDeadline ==
    timeout = 0 => \A u \in Units : ~deadlineHit[u]

\* the discover command went through the loop over the BMCs
AllBmcsVisited ==
    /\ \A u \in Units :
         /\ Present(found[u])
         /\ <<"GET", SystemsPath>> \in { calls[u][i] : i \in 1..Len(calls[u]) }
         /\ discSSHPubKey = "readable" => calls[u][1] = <<"PATCH">>
    /\ spawned = Len(hosts)

\* the nodes of the BMCs 1..n, in the order of the BMCs
RECURSIVE NodesUpTo(_)
NodesUpTo(n) == IF n = 0 THEN << >> ELSE NodesUpTo(n - 1) \o found[n].nodes

\* the lines written for host name h
LinesOf(h) == { i \in 1..Len(output) : output[i].host = h }

\* C24: a failure on one BMC or host does not keep the others from being
\* processed.  Discovery ends only for an unreadable key file or an
\* exhausted address pool; otherwise every BMC is asked for its systems
\* (and patched when a key is given), and the nodes are those of all BMCs
\* whose discovery succeeded.  The status query ends with the records of
\* every host for every target.  The firmware update has called
\* SimpleUpdate for every host and written one line for each, in serial and
\* in parallel mode.
C24_FailuresStayLocal ==
    /\ (cmd = "discover-run" /\ ~discDryRun /\ mainPc \in {"write", "done"}) =>
         \/ ~runErr.nil /\ runErr.text \in { StrReadKey, StrIpAllocate }
         \/ /\ AllBmcsVisited
            /\ out = NodesUpTo(Len(hosts))
            /\ \A u \in Units :
                 /\ found[u].ok => Len(found[u].nodes) = Len(found[u].systemMACs)
                 /\ ~found[u].ok => found[u].nodes = << >>
    /\ PastBarrier =>
         \A u \in Units : Cardinality(RecordsOf(u)) = Len(targets)
    /\ (cmd = "firmware" /\ ~fwDryRun /\ mainPc = "done") =>
         /\ \A u \in Units : Present(upErr[u]) /\ calls[u] # << >>
         /\ Len(output) = Len(hosts)
         /\ \A h \in HostNames :
              Cardinality(LinesOf(h)) = Occurrences(hosts, h)

C24_Witness ==
    /\ cmd = "discover-run"
    /\ mainPc = "done"
    /\ Len(hosts) = 2
    /\ ~found[1].ok
    /\ deadlineHit[1]
    /\ found[2].ok
    /\ Len(found[2].nodes) = 2
    /\ written = [ok |-> TRUE, nodes |-> found[2].nodes]

\* C25: with --dry-run the firmware command makes no Gateway call and
\* writes one planned action per host and nothing else, in serial and in
\* parallel mode; with --dry-run the discover command makes no Gateway call
\* (no PATCH of the keys, no discovery GET), builds no node and writes no
\* file.
C25_DryRunTouchesNothing ==
    /\ (cmd = "firmware" /\ fwDryRun) =>
         /\ \A u \in Units : calls[u] = << >> /\ ~Present(upErr[u])
         /\ \A i \in 1..Len(output) : output[i].kind = "dry-run"
         /\ \A h \in HostNames :
              Cardinality(LinesOf(h)) <= Occurrences(hosts, h)
         /\ mainPc = "done" =>
              \A h \in HostNames :
                  Cardinality(LinesOf(h)) = Occurrences(hosts, h)
    /\ (cmd = "discover-run" /\ discDryRun) =>
         /\ \A u \in Units : calls[u] = << >> /\ ~Present(found[u])
         /\ out = << >>
         /\ written = None
         /\ runErr.nil
         /\ mainPc = "done" => output = DryRunPlan

C25_Witness ==
    /\ cmd = "firmware"
    /\ fwDryRun
    /\ ~Serial
    /\ mainPc = "done"
    /\ Len(hosts) = 2
    /\ Len(output) = 2
    /\ output[1].host # output[2].host

\* the position of system path p among the systems the BMC lists
SystemIndex(tree, p) ==
    CHOOSE k \in 1..Len(tree.systems.Members) : tree.systems.Members[k] = p

\* C27 as claimed: the node number in a node's xname is the index of its
\* system among the systems of its BMC (first system n0, second n1), also
\* when another system of the BMC was skipped or dropped.
C27_NodeNumberIsSystemIndex ==
    \A u \in Units :
        (cmd = "discover-run" /\ Present(found[u]) /\ found[u].ok) =>
            \A i \in 1..Len(found[u].nodes) :
                found[u].nodes[i].Xname =
                    BMCXnameToNodeN(hosts[u],
                        SystemIndex(bmcs[u], found[u].systemMACs[i].SystemPath) - 1)

\* the units inside the section guarded by the mutex: lines 250-267 of the
\* status query, lines 184-185 and 191-202 of the parallel firmware update
InSection ==
    { u \in Units :
        \/ cmd = "status" /\ pc[u] = "aggregate"
        \/ cmd = "firmware" /\ ~Serial /\ pc[u] = "print" }

\* the units at a Gateway call
AtGatewayCall ==
    { u \in Units :
        \/ cmd = "status" /\ pc[u] \in {"us", "tasks", "inv"}
        \/ cmd = "firmware" /\ ~Serial /\ pc[u] = "update" }

\* C26: at most one host unit is inside the section guarded by the mutex
\* and it is the holder of the mutex; a unit at a Gateway call holds a
\* semaphore slot and not the mutex; and no step adds a Gateway call to the
\* log of the unit that holds the mutex.
C26_NoLockAcrossCalls ==
    /\ [](/\ Cardinality(InSection) <= 1
          /\ \A u \in InSection : mu = u
          /\ \A u \in AtGatewayCall : mu # u /\ u \in Holders)
    /\ [][\A u \in Units : (mu = u \/ mu' = u) => calls'[u] = calls[u]]_vars

C26_Witness ==
    /\ cmd = "status"
    /\ Len(hosts) = 2
    /\ mu = 1
    /\ pc[1] = "aggregate"
    /\ pc[2] = "lock"
    /\ calls[1] # << >>

\* the update service of host h answers with a health other than "OK" (any
\* case, the absent health included) and without conditions
NonOkWithoutConditions(h) ==
    /\ gateway.host = "fixed"
    /\ gateway.us[h].ok
    /\ ~EqualFold(gateway.us[h].Health, StrOK)
    /\ gateway.us[h].Conditions = << >>

\* unit u has evaluated the update-service snapshot
ServiceEvaluated(u) ==
    cmd = "status" /\ \E i \in 1..Len(calls[u]) : calls[u][i] = <<"UpdateService">>

\* the task list of unit u holds an active update task
ActiveTaskSeen(u) == tasks[u].ok /\ Len(tasks[u].tasks) > 0

\* C28: an update-service snapshot fetched with a health other than "OK"
\* (the absent health included) and no conditions gives the host no error
\* text and does not set the in-progress flag, whatever its state: the
\* task list is fetched, the flag is set only by an active task, and every
\* record of the host has the error text and the status of its target
\* alone (idle when the target has no error text and nothing in progress).
C28_NonOkServiceWithoutConditionsIsSilent ==
    \A u \in Units :
        (ServiceEvaluated(u) /\ NonOkWithoutConditions(hosts[u])) =>
            /\ perr[u] = Empty
            /\ pc[u] = "tasks" => ~anyInProgress[u]
            /\ pc[u] # "tasks" => TasksFetched(u)
            /\ Present(tasks[u]) => (anyInProgress[u] <=> ActiveTaskSeen(u))
            /\ Recorded(u) =>
                 /\ LastRecord(u).Error = tgt[u].perrTarget
                 /\ LastRecord(u).Status =
                      (IF tgt[u].perrTarget # Empty THEN "error"
                       ELSE IF anyInProgress[u] \/ tgt[u].anyInProgressTarget
                            THEN "in-progress"
                       ELSE "idle")

C28_Witness ==
    \E u \in Units :
        /\ Recorded(u)
        /\ gateway.host = "fixed"
        /\ gateway.us[hosts[u]].ok
        /\ gateway.us[hosts[u]].Health = StrCritical
        /\ ToLower(gateway.us[hosts[u]].State) = StrUpdating
        /\ gateway.us[hosts[u]].Conditions = << >>
        /\ LastRecord(u).Status = "idle"
        /\ LastRecord(u).Error = Empty

\* a sequence of strings without the empty strings it starts with
RECURSIVE DropLeadingEmpty(_)
DropLeadingEmpty(parts) ==
    IF parts = << >> THEN << >>
    ELSE IF Head(parts) = Empty THEN DropLeadingEmpty(Tail(parts))
    ELSE parts

\* C29: for a fetched target whose health is present and not "OK", the
\* target-level error text is the texts of all its conditions, in order,
\* followed by the texts of its conditions that are Critical or whose
\* message holds "failed" or "error", in order, joined by "; " (a text is
\* joined to an empty error text without a separator): a condition of that
\* class is there twice, another condition once.  The text is only added
\* to: the record's error text starts with the host-level text and ends
\* with the target-level text.
C29_ErrorConditionsCountedTwice ==
    \A u \in Units :
        (Evaluated(u) /\ inv[u].ok /\ HealthPresentNotOk(inv[u])
                      /\ Len(inv[u].Conditions) > 0) =>
            /\ tgt[u].perrTarget =
                 Join(DropLeadingEmpty(
                          CondTexts(inv[u].Conditions)
                          \o CondTexts(SelectSeq(inv[u].Conditions, ErrorClass))),
                      SepSemi)
            /\ IsPrefix(perr[u], tgt[u].combinedErr)
            /\ EndsWith(tgt[u].combinedErr, tgt[u].perrTarget)

C29_Witness ==
    \E u \in Units :
        /\ Evaluated(u)
        /\ inv[u].ok
        /\ inv[u].Health = StrCritical
        /\ Len(inv[u].Conditions) = 2
        /\ ErrorClass(inv[u].Conditions[1])
        /\ ~ErrorClass(inv[u].Conditions[2])
        /\ CondText(inv[u].Conditions[2]) # Empty
        /\ tgt[u].perrTarget =
             Join(<<CondText(inv[u].Conditions[1]),
                    CondText(inv[u].Conditions[2]),
                    CondText(inv[u].Conditions[1])>>, SepSemi)

\* every host unit has ended with its slot released, the join barrier is
\* passed and the command has written its output
Finished ==
    /\ mainPc = "done"
    /\ \A u \in Units : pc[u] = "done"
    /\ sem = 0 /\ mu = 0 /\ wg = 0
    /\ Len(output) = (IF cmd = "status" THEN 1 ELSE Len(hosts))

\* C30: when every Gateway call returns and every goroutine that can run
\* does run, the command ends for every number of hosts and every batch
\* size: every host unit gets a semaphore slot, ends and releases it, the
\* join barrier is passed and the output is written; semaphore, mutex and
\* wait group never block each other for good.
C30_EveryRunEnds == <>[]Finished

C30_Witness ==
    /\ cmd = "firmware"
    /\ ~Serial
    /\ mainPc = "wait"
    /\ sem = SemCapacity
    /\ \E u, v, w \in Units :
         /\ pc[u] = "print" /\ mu = u
         /\ pc[v] = "lock"
         /\ pc[w] = "acquire"

====
